---- MODULE Spec2Model ----
(***************************************************************************)
(* Resilience core of the enterprise microservice system.                  *)
(*                                                                         *)
(* Part 1: common/circuitbreaker (a wrapper of github.com/sony/gobreaker)  *)
(* and the order service's UserClient, which calls the user service        *)
(* through it.  The wrapper hands Execute to gobreaker, so the breaker's   *)
(* state machine below (beforeRequest, afterRequest, currentState,         *)
(* setState, toNewGeneration, Counts) is gobreaker's, with the Settings    *)
(* that circuitbreaker.New builds.                                         *)
(*                                                                         *)
(* Part 2: common/middleware RateLimiter (a sync.Map of                    *)
(* golang.org/x/time/rate limiters, one per client key).                   *)
(*                                                                         *)
(* Time is a discrete clock.  The breaker's clock counts ticks of          *)
(* SecondsPerTick seconds, the limiter's clock ticks TicksPerSecond times  *)
(* a second.  Each part has its own specification; the variables of the    *)
(* other part stay as they are after construction.                         *)
(***************************************************************************)
EXTENDS Integers, Sequences, FiniteSets, TLC

VARIABLES
    breaker,      \* the gobreaker.CircuitBreaker behind circuitbreaker.CircuitBreaker
    now,          \* time.Now() of the order service, in ticks
    pc,           \* per caller: "idle", or "inflight" inside the wrapped doGetRequest
    gen,          \* per caller: the generation beforeRequest returned to it
    started,      \* per caller: when its operation was invoked
    ret,          \* the error the last GetUser call to return returned
    firstCalls,   \* history: a summary of the first Execute calls of the breaker
    trials,       \* history: the trial calls of the latest half-open period
    rl,           \* the RateLimiter: its limit and burst
    limiters,     \* rl.limiters, the sync.Map: per key a *rate.Limiter or none
    heap,         \* the rate.Limiter objects that were created, by pointer
    req,          \* per request goroutine: its place in Middleware, key, limiter
    tick,         \* time.Now() seen by the limiters, in ticks
    response,     \* the response to the last request that passed the middleware
    log,          \* history: per key the admission decisions, in order
    svc,          \* which service the cache-aside layer is observed in
    cacheCfg,     \* the service's cache: nil, disabled or enabled
    redisUp,      \* whether the cache backend answers
    db,           \* the service's table, the source of truth: rows by id
    store,        \* the backend's entries: per key a JSON value and its expiry
    ctime,        \* the backend's clock, in cache ticks
    last,         \* the last service operation and what it returned
    queries,      \* two list queries
    listKeys,     \* the list cache keys computed for them
    created,      \* what the last CreateOrder returned and what it did
    boot,         \* main of a service: its phase, environment and configuration
    provider,     \* a CachedTokenProvider, its lock and its clock
    getters,      \* per goroutine: its place in GetToken, what its last call returned
    tokenLog,     \* history: the tokens generated, the calls that ran together
    authReq,      \* the last request to a protected route and its answer
    reading       \* the goroutine of a Get that runs beside other requests

breakerVars == <<breaker, now, pc, gen, started, ret, firstCalls, trials>>

limiterVars == <<rl, limiters, heap, req, tick, response, log>>

cacheVars == <<svc, cacheCfg, redisUp, db, store, ctime, last>>

keyVars == <<queries, listKeys>>

orderVars == <<created>>

bootVars == <<boot>>

tokenVars == <<provider, getters, tokenLog>>

authVars == <<authReq>>

raceVars == <<reading>>

platformVars == <<bootVars, tokenVars, authVars, raceVars>>

vars == <<breaker, now, pc, gen, started, ret, firstCalls, trials,
          rl, limiters, heap, req, tick, response, log,
          svc, cacheCfg, redisUp, db, store, ctime, last,
          queries, listKeys, created, boot,
          provider, getters, tokenLog, authReq, reading>>

----------------------------------------------------------------------------
(* Bounds of the model *)

\* seconds of real time per tick of the breaker's clock
SecondsPerTick == 15
\* the breaker's clock stops here
MaxTime == 7
\* at most this many requests are counted in one generation
MaxCount == 4
\* the history counts this many Execute calls
MaxLog == 4

Callers == {"c1", "c2"}

----------------------------------------------------------------------------
(* common/circuitbreaker: Config, DefaultConfig, New *)

\* DefaultConfig().MaxRequests, also config.Load's default
DefaultMaxRequests == 3
\* DefaultConfig().Interval, in seconds
IntervalSeconds == 60
\* DefaultConfig().Timeout, in seconds
TimeoutSeconds == 30

Interval == IntervalSeconds \div SecondsPerTick
Timeout == TimeoutSeconds \div SecondsPerTick

\* Config.MaxRequests values a deployment may set (CIRCUIT_BREAKER_MAX_REQUESTS)
ConfigMaxRequests == {0, 1, DefaultMaxRequests}

StateClosed == "closed"
StateHalfOpen == "half-open"
StateOpen == "open"

\* time.Time{}: the zero time, before every time the clock shows
ZeroTime == 0
StartTime == 1

ErrNil == "nil"
ErrOpenState == "ErrOpenState"
ErrTooManyRequests == "ErrTooManyRequests"
ErrContextCanceled == "context canceled"

ErrCodeInternal == "INTERNAL_ERROR"
ErrCodeNotFound == "NOT_FOUND"
ErrCodeCircuitOpen == "CIRCUIT_OPEN"
ErrCodeRateLimit == "RATE_LIMIT_EXCEEDED"
ErrCodeServiceUnavail == "SERVICE_UNAVAILABLE"
\* userResp.Error.Code of a non-success envelope: whatever the user service sent
ErrCodeEnvelope == "ENVELOPE_ERROR"

\* gobreaker.Counts
ZeroCounts ==
    [Requests |-> 0, TotalSuccesses |-> 0, TotalFailures |-> 0,
     ConsecutiveSuccesses |-> 0, ConsecutiveFailures |-> 0]

onRequest(counts) == [counts EXCEPT !.Requests = @ + 1]

CountsOnSuccess(counts) ==
    [counts EXCEPT !.TotalSuccesses = @ + 1,
                   !.ConsecutiveSuccesses = @ + 1,
                   !.ConsecutiveFailures = 0]

CountsOnFailure(counts) ==
    [counts EXCEPT !.TotalFailures = @ + 1,
                   !.ConsecutiveFailures = @ + 1,
                   !.ConsecutiveSuccesses = 0]

\* ReadyToTrip: "at least 3 requests"
MinRequests == 3

ReadyToTrip_FourRequests(counts) ==
    /\ counts.Requests >= MinRequests + 1
    /\ 2 * counts.TotalFailures >= counts.Requests

\* Settings.ReadyToTrip of circuitbreaker.New: the ratio is a float64 division,
\* NaN for no request, and then the conjunction is false
ReadyToTrip(counts) ==
    /\ counts.Requests >= MinRequests
    /\ 2 * counts.TotalFailures >= counts.Requests

isSuccessful_NotFoundOk(err) == err \in {ErrNil, ErrCodeNotFound}

\* Settings.IsSuccessful is left unset: gobreaker's default, err == nil
isSuccessful(err) == err = ErrNil

toNewGeneration_KeepCounts(cb, t) ==
    [cb EXCEPT !.generation = @ + 1,
               !.expiry = CASE cb.state = StateClosed ->
                                 IF cb.interval = 0 THEN ZeroTime ELSE t + cb.interval
                            [] cb.state = StateOpen -> t + cb.timeout
                            [] OTHER -> ZeroTime]

\* gobreaker.CircuitBreaker.toNewGeneration
toNewGeneration(cb, t) ==
    [cb EXCEPT !.generation = @ + 1,
               !.counts = ZeroCounts,
               !.expiry = CASE cb.state = StateClosed ->
                                 IF cb.interval = 0 THEN ZeroTime ELSE t + cb.interval
                            [] cb.state = StateOpen -> t + cb.timeout
                            [] OTHER -> ZeroTime]

\* gobreaker.CircuitBreaker.setState
setState(cb, state, t) ==
    IF cb.state = state THEN cb
    ELSE toNewGeneration([cb EXCEPT !.state = state], t)

currentState_NonStrictExpiry(cb, t) ==
    CASE cb.state = StateClosed ->
             IF cb.expiry # ZeroTime /\ cb.expiry <= t THEN toNewGeneration(cb, t) ELSE cb
      [] cb.state = StateOpen ->
             IF cb.expiry <= t THEN setState(cb, StateHalfOpen, t) ELSE cb
      [] OTHER -> cb

\* gobreaker.CircuitBreaker.currentState: expiry.Before(now) is strict
currentState(cb, t) ==
    CASE cb.state = StateClosed ->
             IF cb.expiry # ZeroTime /\ cb.expiry < t THEN toNewGeneration(cb, t) ELSE cb
      [] cb.state = StateOpen ->
             IF cb.expiry < t THEN setState(cb, StateHalfOpen, t) ELSE cb
      [] OTHER -> cb

beforeRequest_NoTrialLimit(cb, t) ==
    LET cur == currentState(cb, t) IN
    IF cur.state = StateOpen
    THEN [cb |-> cur, generation |-> cur.generation, err |-> ErrOpenState]
    ELSE [cb |-> [cur EXCEPT !.counts = onRequest(@)],
          generation |-> cur.generation, err |-> ErrNil]

\* gobreaker.CircuitBreaker.beforeRequest: the breaker after it, the generation
\* and the error it returns
beforeRequest(cb, t) ==
    LET cur == currentState(cb, t) IN
    IF cur.state = StateOpen
    THEN [cb |-> cur, generation |-> cur.generation, err |-> ErrOpenState]
    ELSE IF cur.state = StateHalfOpen /\ cur.counts.Requests >= cur.maxRequests
    THEN [cb |-> cur, generation |-> cur.generation, err |-> ErrTooManyRequests]
    ELSE [cb |-> [cur EXCEPT !.counts = onRequest(@)],
          generation |-> cur.generation, err |-> ErrNil]

onSuccess_CloseOnFirst(cb, t) ==
    CASE cb.state = StateClosed -> [cb EXCEPT !.counts = CountsOnSuccess(@)]
      [] cb.state = StateHalfOpen ->
             setState([cb EXCEPT !.counts = CountsOnSuccess(@)], StateClosed, t)
      [] OTHER -> cb

\* gobreaker.CircuitBreaker.onSuccess
onSuccess(cb, t) ==
    CASE cb.state = StateClosed -> [cb EXCEPT !.counts = CountsOnSuccess(@)]
      [] cb.state = StateHalfOpen ->
             LET c1 == [cb EXCEPT !.counts = CountsOnSuccess(@)] IN
             IF c1.counts.ConsecutiveSuccesses >= c1.maxRequests
             THEN setState(c1, StateClosed, t) ELSE c1
      [] OTHER -> cb

onFailure_HalfOpenCounts(cb, t) ==
    CASE cb.state = StateClosed ->
             LET c1 == [cb EXCEPT !.counts = CountsOnFailure(@)] IN
             IF ReadyToTrip(c1.counts) THEN setState(c1, StateOpen, t) ELSE c1
      [] cb.state = StateHalfOpen ->
             LET c1 == [cb EXCEPT !.counts = CountsOnFailure(@)] IN
             IF ReadyToTrip(c1.counts) THEN setState(c1, StateOpen, t) ELSE c1
      [] OTHER -> cb

\* gobreaker.CircuitBreaker.onFailure
onFailure(cb, t) ==
    CASE cb.state = StateClosed ->
             LET c1 == [cb EXCEPT !.counts = CountsOnFailure(@)] IN
             IF ReadyToTrip(c1.counts) THEN setState(c1, StateOpen, t) ELSE c1
      [] cb.state = StateHalfOpen -> setState(cb, StateOpen, t)
      [] OTHER -> cb

\* gobreaker.CircuitBreaker.afterRequest: a result of another generation is dropped
afterRequest(cb, before, success, t) ==
    LET cur == currentState(cb, t) IN
    IF cur.generation # before THEN cur
    ELSE IF success THEN onSuccess(cur, t) ELSE onFailure(cur, t)

\* gobreaker.NewCircuitBreaker with the Settings of circuitbreaker.New
NewCircuitBreaker(maxRequests, t) ==
    toNewGeneration(
        [state |-> StateClosed, generation |-> 0, counts |-> ZeroCounts,
         expiry |-> ZeroTime,
         maxRequests |-> IF maxRequests = 0 THEN 1 ELSE maxRequests,
         interval |-> Interval, timeout |-> Timeout], t)

\* CircuitBreaker.Execute: the error it returns for gobreaker's error
ExecuteError(err) == IF err = ErrOpenState THEN ErrCodeCircuitOpen ELSE err

----------------------------------------------------------------------------
(* order service: UserClient *)

\* NewUserClient: http.Client{Timeout}, in seconds
ClientTimeoutSeconds == 10

\* a request that began during one tick has ended when this many further ticks
\* have passed
ClientTimeout == (ClientTimeoutSeconds + SecondsPerTick - 1) \div SecondsPerTick

\* what the user service answers to GET /api/v1/users/{id}, or how the request
\* ends without an answer
Responses ==
    {"200 success", "200 not success", "404", "503", "transport error",
     "context canceled"}

\* UserClient.doGetRequest: the error it returns
doGetRequest(resp) ==
    CASE resp \in {"transport error", "context canceled"} -> ErrCodeInternal
      [] resp = "404" -> ErrCodeNotFound
      [] resp = "503" -> ErrCodeServiceUnavail
      [] resp = "200 not success" -> ErrCodeEnvelope
      [] OTHER -> ErrNil

----------------------------------------------------------------------------
(* History variables: what an observer of the calls records.  They are read *)
(* by the properties only.  firstCalls counts the Execute calls that have   *)
(* returned and describes the first MinRequests of them: whether each       *)
(* invoked the operation and got an error (allFailed), got NOT_FOUND        *)
(* (allNotFound), was made with no other call in flight (sequential), and   *)
(* whether the breaker began no new counting interval meanwhile             *)
(* (oneInterval).                                                           *)

InFlight == {c \in Callers : pc[c] = "inflight"}

\* kind: "admitted" (the operation is invoked), "rejected" (Execute returns the
\* breaker's error), "returned" (the operation returned err), "none"
History(kind, err) ==
    LET counted == kind \in {"rejected", "returned"}
        \* the breaker began a new counting interval in the closed state
        rolledOver == /\ breaker.state = StateClosed
                      /\ breaker'.state = StateClosed
                      /\ breaker'.generation # breaker.generation
        began == firstCalls.n > 0 \/ InFlight # {}
        entered == breaker'.state = StateHalfOpen /\ breaker.state # StateHalfOpen
        base == IF entered THEN [invoked |-> 0, succeeded |-> 0, failed |-> 0]
                ELSE trials
        \* a call of the half-open period, whose generation is the period's
        trial == \E c \in InFlight :
                    /\ pc'[c] = "idle"
                    /\ breaker.state = StateHalfOpen
                    /\ gen[c] = breaker.generation
    IN
    /\ firstCalls' =
         IF firstCalls.n >= MinRequests
         THEN [firstCalls EXCEPT
                 !.n = IF counted /\ @ < MaxLog THEN @ + 1 ELSE @]
         ELSE [n |-> firstCalls.n + (IF counted THEN 1 ELSE 0),
               allFailed |-> firstCalls.allFailed
                               /\ (counted => (kind = "returned" /\ err # ErrNil)),
               allNotFound |-> firstCalls.allNotFound
                               /\ (counted => (kind = "returned" /\ err = ErrCodeNotFound)),
               sequential |-> firstCalls.sequential
                               /\ ~(kind = "admitted" /\ InFlight # {}),
               oneInterval |-> firstCalls.oneInterval /\ ~(rolledOver /\ began)]
    /\ trials' =
         [invoked |-> base.invoked
                        + (IF kind = "admitted" /\ breaker'.state = StateHalfOpen
                           THEN 1 ELSE 0),
          succeeded |-> base.succeeded
                        + (IF kind = "returned" /\ trial /\ err = ErrNil THEN 1 ELSE 0),
          failed |-> base.failed
                        + (IF kind = "returned" /\ trial /\ err # ErrNil THEN 1 ELSE 0)]

----------------------------------------------------------------------------
(* Operations *)

\* CircuitBreaker.Execute up to the call of the wrapped operation: gobreaker's
\* beforeRequest admits the call or returns its error
Execute(c) ==
    LET r == beforeRequest(breaker, now) IN
    /\ r.cb.counts.Requests <= MaxCount
    /\ breaker' = r.cb
    /\ IF r.err = ErrNil
       THEN /\ pc' = [pc EXCEPT ![c] = "inflight"]
            /\ gen' = [gen EXCEPT ![c] = r.generation]
            /\ started' = [started EXCEPT ![c] = now]
            /\ UNCHANGED ret
            /\ History("admitted", ErrNil)
       ELSE /\ ret' = ExecuteError(r.err)
            /\ UNCHANGED <<pc, gen, started>>
            /\ History("rejected", ExecuteError(r.err))

ExecuteWithContext_NoCheck(c, ctxDone) == Execute(c)

\* CircuitBreaker.ExecuteWithContext up to the call of the wrapped operation:
\* a context that is already done returns its error before the breaker is asked
ExecuteWithContext(c, ctxDone) ==
    IF ctxDone
    THEN /\ ret' = ErrContextCanceled
         /\ UNCHANGED <<breaker, pc, gen, started, firstCalls, trials>>
    ELSE Execute(c)

\* UserClient.GetUser, until doGetRequest is running or the call is refused
GetUser(c) ==
    /\ pc[c] = "idle"
    /\ \E ctxDone \in BOOLEAN : ExecuteWithContext(c, ctxDone)
    /\ UNCHANGED <<now, limiterVars, cacheVars, keyVars, orderVars, platformVars>>

\* doGetRequest ends with resp, gobreaker's afterRequest records the result,
\* Execute and GetUser return it
Return(c, resp) ==
    LET err == doGetRequest(resp) IN
    /\ pc[c] = "inflight"
    /\ breaker' = afterRequest(breaker, gen[c], isSuccessful(err), now)
    /\ ret' = err
    /\ pc' = [pc EXCEPT ![c] = "idle"]
    /\ gen' = [gen EXCEPT ![c] = 0]
    /\ started' = [started EXCEPT ![c] = 0]
    /\ UNCHANGED <<now, limiterVars, cacheVars, keyVars, platformVars>>
    /\ History("returned", err)

GetUserReturn(c) ==
    /\ \E resp \in Responses : Return(c, resp)
    /\ UNCHANGED orderVars

\* CircuitBreaker.State, which updateCircuitBreakerMetrics polls
State ==
    /\ breaker' = currentState(breaker, now)
    /\ UNCHANGED <<now, pc, gen, started, ret, limiterVars, cacheVars, keyVars, orderVars, platformVars>>
    /\ History("none", ErrNil)

\* time passes; the HTTP client ends a request that reaches its timeout
Tick ==
    /\ now < MaxTime
    /\ \A c \in InFlight : now + 1 <= started[c] + ClientTimeout
    /\ now' = now + 1
    /\ UNCHANGED <<breaker, pc, gen, started, ret, firstCalls, trials,
                   limiterVars, cacheVars, keyVars, orderVars, platformVars>>

\* the order service after main built the breaker and the user client
BreakerStart(m) ==
    /\ now = StartTime
    /\ breaker = NewCircuitBreaker(m, StartTime)
    /\ pc = [c \in Callers |-> "idle"]
    /\ gen = [c \in Callers |-> 0]
    /\ started = [c \in Callers |-> 0]
    /\ ret = "none"
    /\ firstCalls = [n |-> 0, allFailed |-> TRUE, allNotFound |-> TRUE,
                     sequential |-> TRUE, oneInterval |-> TRUE]
    /\ trials = [invoked |-> 0, succeeded |-> 0, failed |-> 0]

----------------------------------------------------------------------------
(* common/response: the HTTP status of an error code *)

ErrCodeBadRequest == "BAD_REQUEST"
ErrCodeUnauthorized == "UNAUTHORIZED"
ErrCodeForbidden == "FORBIDDEN"
ErrCodeConflict == "CONFLICT"
ErrCodeValidation == "VALIDATION_ERROR"
ErrCodeDatabase == "DATABASE_ERROR"

StatusOK == 200
StatusBadRequest == 400
StatusUnauthorized == 401
StatusForbidden == 403
StatusNotFound == 404
StatusConflict == 409
StatusTooManyRequests == 429
StatusInternalServerError == 500
StatusServiceUnavailable == 503

\* response.getStatusCode
getStatusCode(code) ==
    CASE code = ErrCodeNotFound -> StatusNotFound
      [] code \in {ErrCodeBadRequest, ErrCodeValidation} -> StatusBadRequest
      [] code = ErrCodeUnauthorized -> StatusUnauthorized
      [] code = ErrCodeForbidden -> StatusForbidden
      [] code = ErrCodeConflict -> StatusConflict
      [] code = ErrCodeRateLimit -> StatusTooManyRequests
      [] code \in {ErrCodeCircuitOpen, ErrCodeServiceUnavail} -> StatusServiceUnavailable
      [] OTHER -> StatusInternalServerError

----------------------------------------------------------------------------
(* common/middleware: RateLimiter, over golang.org/x/time/rate.             *)
(* A limiter's tokens are counted in units of 1/TicksPerSecond token, so    *)
(* that a tick adds limit units and a request costs TicksPerSecond units.   *)

\* ticks of the limiter's clock per second
TicksPerSecond == 4
\* the limiter's clock stops here
MaxTick == 4
\* at most this many requests enter the middleware
MaxServed == 6

\* at most this many requests enter the middleware when requests are served
\* at the same time
MaxConcurrentServed == 4

\* client keys (c.ClientIP())
Keys == {"A", "B"}
\* goroutines that serve requests
RequestProcs == {"r1", "r2"}
\* the goroutine that serves requests that come one after the other
SequentialProcs == {"r1"}

\* no *rate.Limiter: the key is not in the map
NoLimiter == 0

\* TestRateLimiter: NewRateLimiter(2, 2)
TestRequestsPerSecond == 2
TestBurst == 2

\* NewRateLimiter
NewRateLimiter(requestsPerSecond, burst) ==
    [limit |-> requestsPerSecond, burst |-> burst]

\* the limiters of the model: the test's, and main's
\* NewRateLimiter(cfg.Server.RateLimit, cfg.Server.RateLimit*2) with rate 1
LimiterConfigs ==
    {NewRateLimiter(TestRequestsPerSecond, TestBurst), NewRateLimiter(1, 1 * 2)}

\* one token
OneToken == TicksPerSecond

\* rate.NewLimiter, created at t.  The library's limiter begins with its
\* bucket at burst from the first time it is used (limit > 0).
NewLimiter(limit, burst, t) ==
    [limit |-> limit, burst |-> burst, tokens |-> burst * OneToken, last |-> t]

advance_NoRefill(lim, t) ==
    IF lim.tokens > lim.burst * OneToken THEN lim.burst * OneToken ELSE lim.tokens

\* rate.Limiter.advance: the tokens at t, limit per second since last, at
\* most burst
advance(lim, t) ==
    LET delta == (t - lim.last) * lim.limit
        tokens == lim.tokens + delta
    IN  IF tokens > lim.burst * OneToken THEN lim.burst * OneToken ELSE tokens

\* rate.Limiter.reserveN(t, 1, 0): ok if a token is there now; the limiter
\* is updated only if ok
reserveN(lim, t) ==
    LET tokens == advance(lim, t) - OneToken
        ok == 1 <= lim.burst /\ tokens >= 0
    IN  [ok |-> ok,
         lim |-> IF ok THEN [lim EXCEPT !.tokens = tokens, !.last = t] ELSE lim]

\* rate.Limiter.Tokens
Tokens(lim, t) == advance(lim, t)

RECURSIVE Served(_)
\* the number of requests decided for the keys in S
Served(S) ==
    IF S = {} THEN 0
    ELSE LET k == CHOOSE x \in S : TRUE IN Len(log[k]) + Served(S \ {k})

InMiddleware == {p \in RequestProcs : req[p].pc # "idle"}

IdleRequest == [pc |-> "idle", clientIP |-> "none", limiter |-> NoLimiter]

\* what the handlers behind the middleware answer
HandlerStatuses == {StatusOK, StatusInternalServerError}

\* Middleware: c.ClientIP() is key; getLimiter: rl.limiters.Load(key)
getLimiterLoad(p, key) ==
    /\ req[p].pc = "idle"
    /\ Served(Keys) + Cardinality(InMiddleware) < MaxServed
    /\ req' = [req EXCEPT ![p] =
                 [pc |-> IF limiters[key] = NoLimiter THEN "Store" ELSE "Allow",
                  clientIP |-> key,
                  limiter |-> limiters[key]]]
    /\ UNCHANGED <<rl, limiters, heap, tick, response, log, breakerVars, cacheVars, keyVars, orderVars, platformVars>>

getLimiterStore_AllKeys(p) ==
    LET limiter == Len(heap) + 1 IN
    /\ req[p].pc = "Store"
    /\ heap' = Append(heap, NewLimiter(rl.limit, rl.burst, tick))
    /\ limiters' = [k \in Keys |-> limiter]
    /\ req' = [req EXCEPT ![p].pc = "Allow", ![p].limiter = limiter]
    /\ UNCHANGED <<rl, tick, response, log, breakerVars, cacheVars, keyVars, orderVars, platformVars>>

\* getLimiter, the key was not in the map: rate.NewLimiter and
\* rl.limiters.Store(key, limiter)
getLimiterStore(p) ==
    LET limiter == Len(heap) + 1 IN
    /\ req[p].pc = "Store"
    /\ heap' = Append(heap, NewLimiter(rl.limit, rl.burst, tick))
    /\ limiters' = [limiters EXCEPT ![req[p].clientIP] = limiter]
    /\ req' = [req EXCEPT ![p].pc = "Allow", ![p].limiter = limiter]
    /\ UNCHANGED <<rl, tick, response, log, breakerVars, cacheVars, keyVars, orderVars, platformVars>>

\* Middleware from limiter.Allow() on: a request that is not allowed is
\* answered by response.Error(NewRateLimit()) and c.Abort(), an allowed one
\* goes on to the handler by c.Next()
Middleware(p, handlerStatus) ==
    LET limiter == req[p].limiter
        r == reserveN(heap[limiter], tick)
    IN
    /\ req[p].pc = "Allow"
    /\ heap' = [heap EXCEPT ![limiter] = r.lim]
    /\ response' = IF r.ok
               THEN [status |-> handlerStatus, code |-> "none",
                     aborted |-> FALSE, handler |-> TRUE]
               ELSE [status |-> getStatusCode(ErrCodeRateLimit),
                     code |-> ErrCodeRateLimit,
                     aborted |-> TRUE, handler |-> FALSE]
    /\ log' = [log EXCEPT ![req[p].clientIP] =
                 Append(@, [at |-> tick, allowed |-> r.ok])]
    /\ req' = [req EXCEPT ![p] = IdleRequest]
    /\ UNCHANGED <<rl, limiters, tick, breakerVars, cacheVars, keyVars, orderVars, platformVars>>

Stale_NotFull(limiter, t) == Tokens(limiter, t) # limiter.burst * OneToken

\* CleanupStaleEntries, the test of one entry: limiter.Tokens() ==
\* float64(rl.burst)
Stale(limiter, t) == Tokens(limiter, t) = limiter.burst * OneToken

\* the keys that rl.limiters.Range visits: those in the map
Stored == {k \in Keys : limiters[k] # NoLimiter}

\* CleanupStaleEntries, run from its first to its last entry with no request
\* served meanwhile: every entry whose limiter is full is deleted
CleanupStaleEntries ==
    /\ Stored # {}
    /\ limiters' = [k \in Keys |->
                      IF k \in Stored /\ Stale(heap[limiters[k]], tick)
                      THEN NoLimiter ELSE limiters[k]]
    /\ UNCHANGED <<rl, heap, req, tick, response, log, breakerVars, cacheVars, keyVars, orderVars, platformVars>>

\* time passes
TickLimiter ==
    /\ tick < MaxTick
    /\ tick' = tick + 1
    /\ UNCHANGED <<rl, limiters, heap, req, response, log, breakerVars, cacheVars, keyVars, orderVars, platformVars>>

\* a service after main built its rate limiter and its router
LimiterStart(limiter) ==
    /\ rl = limiter
    /\ limiters = [k \in Keys |-> NoLimiter]
    /\ heap = <<>>
    /\ req = [p \in RequestProcs |-> IdleRequest]
    /\ tick = 0
    /\ response = [status |-> 0, code |-> "none", aborted |-> FALSE, handler |-> FALSE]
    /\ log = [k \in Keys |-> <<>>]

----------------------------------------------------------------------------
(* Specifications *)

----------------------------------------------------------------------------
(* Cache-aside layer of the order, repository and audit-log services.       *)
(*                                                                          *)
(* A string is a sequence of tokens: a word, a digit, ":" or " ", so that   *)
(* fmt.Sprintf is concatenation and two strings are equal exactly when      *)
(* their sequences are.  A pointer is a sequence of no element (nil) or one *)
(* element (what it points to).  The mutable business fields of a row are   *)
(* one number, Data.                                                        *)

\* the ids of the rows a table gets
EntityIds == {1, 2}
\* the values a row's business fields take
DataValues == {0, 1}
\* seconds per tick of the cache backend's clock
CacheSecondsPerTick == 30
\* the cache backend's clock stops here
MaxCacheTime == 3

Services == {"orders", "repositories", "audit-logs"}

\* s.cache of a service: nil, a cache whose Enabled() is false, or an enabled one
CacheConfigs == {"nil", "disabled", "enabled"}

StatusActive == <<"active">>
StatusDeleted == <<"deleted">>

DigitChars == <<"0", "1", "2", "3", "4", "5", "6", "7", "8", "9">>

\* fmt.Sprintf("%d", n) of a number that is not negative
RECURSIVE FormatUint(_)
FormatUint(n) ==
    IF n < 10 THEN <<DigitChars[n + 1]>>
    ELSE FormatUint(n \div 10) \o <<DigitChars[(n % 10) + 1]>>

RECURSIVE TrimLeft(_)
TrimLeft(s) == IF s # <<>> /\ Head(s) = " " THEN TrimLeft(Tail(s)) ELSE s

RECURSIVE TrimRight(_)
TrimRight(s) ==
    IF s # <<>> /\ s[Len(s)] = " " THEN TrimRight(SubSeq(s, 1, Len(s) - 1)) ELSE s

\* strings.TrimSpace
TrimSpace(s) == TrimRight(TrimLeft(s))

\* ListOrdersQuery.ApplyDefaults, and the same method of the other two queries
ApplyDefaults(query) ==
    [query EXCEPT !.Page = IF @ <= 0 THEN 1 ELSE @,
                  !.PageSize = IF @ <= 0 THEN 10 ELSE @]

orderListCacheKey(query) ==
    LET userID == IF query.UserID # <<>> THEN FormatUint(query.UserID[1])
                  ELSE <<"any">>
        orderStatus == IF query.OrderStatus # <<>> THEN query.OrderStatus[1]
                       ELSE <<"all">>
        recordStatus == IF query.Status # <<>> THEN query.Status[1] ELSE <<"any">>
        trimmed == TrimSpace(query.ProductID)
        product == IF trimmed = <<>> THEN <<"all">> ELSE trimmed
    IN
    <<"orders", ":", "list", ":", "p">> \o FormatUint(query.Page)
      \o <<":", "ps">> \o FormatUint(query.PageSize)
      \o <<":", "user", ":">> \o userID
      \o <<":", "order_status", ":">> \o orderStatus
      \o <<":", "record_status", ":">> \o recordStatus
      \o <<":", "product", ":">> \o product

repositoryListCacheKey(query) ==
    LET trimmed == TrimSpace(query.Search)
        search == IF trimmed = <<>> THEN <<"all">> ELSE trimmed
        visibility == IF query.Visibility = <<>> THEN <<"all">> ELSE query.Visibility
        status == IF query.Status # <<>> THEN query.Status[1] ELSE <<"any">>
        owner == IF query.OwnerID # <<>> THEN FormatUint(query.OwnerID[1])
                 ELSE <<"any">>
    IN
    <<"repositories", ":", "list", ":", "p">> \o FormatUint(query.Page)
      \o <<":", "ps">> \o FormatUint(query.PageSize)
      \o <<":", "search", ":">> \o search
      \o <<":", "owner", ":">> \o owner
      \o <<":", "visibility", ":">> \o visibility
      \o <<":", "status", ":">> \o status

\* the actor, action, resource type and resource id of auditLogListCacheKey
TrimmedOrAny(s) == IF TrimSpace(s) = <<>> THEN <<"any">> ELSE TrimSpace(s)

auditLogListCacheKey(query) ==
    LET status == IF query.Status # <<>> THEN query.Status[1] ELSE <<"any">>
        trimmed == TrimSpace(query.Search)
        search == IF trimmed = <<>> THEN <<"all">> ELSE trimmed
    IN
    <<"audit-logs", ":", "list", ":", "p">> \o FormatUint(query.Page)
      \o <<":", "ps">> \o FormatUint(query.PageSize)
      \o <<":", "actor", ":">> \o TrimmedOrAny(query.Actor)
      \o <<":", "action", ":">> \o TrimmedOrAny(query.Action)
      \o <<":", "rtype", ":">> \o TrimmedOrAny(query.ResourceType)
      \o <<":", "rid", ":">> \o TrimmedOrAny(query.ResourceID)
      \o <<":", "status", ":">> \o status
      \o <<":", "search", ":">> \o search

\* the list cache key service s computes for a query
ListCacheKey(s, query) ==
    CASE s = "orders" -> orderListCacheKey(query)
      [] s = "repositories" -> repositoryListCacheKey(query)
      [] OTHER -> auditLogListCacheKey(query)

\* fmt.Sprintf("order:%d", id), "repository:%d", "audit-log:%d"
EntityKey(s, id) ==
    (CASE s = "orders" -> <<"order", ":">>
       [] s = "repositories" -> <<"repository", ":">>
       [] OTHER -> <<"audit-log", ":">>) \o FormatUint(id)

----------------------------------------------------------------------------
(* Rows, payloads and their JSON *)

\* the order service's model.User for the user GetUser found
ActiveUser == [ID |-> 1, Status |-> StatusActive]

\* json.Marshal of a row: a JSON object, its members by name
MarshalRow(row) == [id |-> row.ID, data |-> row.Data, status |-> row.Status]

\* json.Unmarshal into a row: a member that is absent leaves the zero value
UnmarshalRow(doc) ==
    [ID |-> IF "id" \in DOMAIN doc THEN doc.id ELSE 0,
     Data |-> IF "data" \in DOMAIN doc THEN doc.data ELSE 0,
     Status |-> IF "status" \in DOMAIN doc THEN doc.status ELSE <<>>]

MarshalUser(user) == [id |-> user.ID, status |-> user.Status]

UnmarshalUser(doc) ==
    [ID |-> IF "id" \in DOMAIN doc THEN doc.id ELSE 0,
     Status |-> IF "status" \in DOMAIN doc THEN doc.status ELSE <<>>]

\* model.OrderWithUser embeds the order; User is `json:"user,omitempty"`
OrderWithUser(order, user) == [Order |-> order, User |-> user]

MarshalOrderWithUser_DropsUser(payload) == MarshalRow(payload.Order)

MarshalOrderWithUser(payload) ==
    IF payload.User = <<>> THEN MarshalRow(payload.Order)
    ELSE MarshalRow(payload.Order) @@ [user |-> MarshalUser(payload.User[1])]

UnmarshalOrderWithUser(doc) ==
    [Order |-> UnmarshalRow(doc),
     User |-> IF "user" \in DOMAIN doc THEN <<UnmarshalUser(doc.user)>> ELSE <<>>]

\* what service s caches under an entity key, and what it reads back
MarshalEntity(s, payload) ==
    IF s = "orders" THEN MarshalOrderWithUser(payload) ELSE MarshalRow(payload)

UnmarshalEntity(s, doc) ==
    IF s = "orders" THEN UnmarshalOrderWithUser(doc) ELSE UnmarshalRow(doc)

\* order.ID of a payload, the id its entity key is made of
EntityId(s, payload) == IF s = "orders" THEN payload.Order.ID ELSE payload.ID

\* the payload struct of a list: the rows and the total
MarshalList(rows, total) ==
    [rows |-> [i \in DOMAIN rows |-> MarshalRow(rows[i])], total |-> total]

UnmarshalList(doc) ==
    [rows |-> IF "rows" \in DOMAIN doc
              THEN [i \in DOMAIN doc.rows |-> UnmarshalRow(doc.rows[i])]
              ELSE <<>>,
     total |-> IF "total" \in DOMAIN doc THEN doc.total ELSE 0]

----------------------------------------------------------------------------
(* common/cache: the backend behind Cache *)

\* 60*time.Second, the ttl of a list entry
ListTTLSeconds == 60
ListTTL == ListTTLSeconds \div CacheSecondsPerTick

\* the ttl an entity entry is set with
EntityTTL == 0

\* the expiry of an entry that does not expire
NoExpiry == 0

\* Cache.Enabled
Enabled == cacheCfg = "enabled"

\* the backend holds an entry under key that has not expired
Live(key) ==
    /\ key \in DOMAIN store
    /\ store[key].expires = NoExpiry \/ ctime < store[key].expires

\* Cache.GetJSON: found, err and the stored JSON
GetJSON(key) ==
    IF ~redisUp THEN [found |-> FALSE, err |-> TRUE, value |-> <<>>]
    ELSE IF Live(key) THEN [found |-> TRUE, err |-> FALSE, value |-> <<store[key].value>>]
    ELSE [found |-> FALSE, err |-> FALSE, value |-> <<>>]

\* Cache.SetJSON: the backend's entries afterwards; a ttl of 0 sets no expiry.
\* at is history: when an entry that expires was stored
SetJSON(key, value, ttl) ==
    IF ~redisUp THEN store
    ELSE [k \in DOMAIN store \cup {key} |->
            IF k = key
            THEN [value |-> value, at |-> IF ttl = 0 THEN 0 ELSE ctime,
                  expires |-> IF ttl = 0 THEN NoExpiry ELSE ctime + ttl]
            ELSE store[k]]

\* Cache.Delete: the backend's entries afterwards
Delete(key) ==
    IF ~redisUp THEN store ELSE [k \in DOMAIN store \ {key} |-> store[k]]

----------------------------------------------------------------------------
(* The services' cache helpers *)

Usable_IgnoresEnabled == cacheCfg # "nil"

\* the negation of `s.cache == nil || !s.cache.Enabled()`
Usable == cacheCfg # "nil" /\ Enabled

\* cacheGetOrder, cacheGetRepository, cacheGetAuditLog: the payload or nil
cacheGetEntity(id) ==
    IF ~Usable THEN <<>>
    ELSE LET r == GetJSON(EntityKey(svc, id)) IN
         IF r.err \/ ~r.found THEN <<>> ELSE <<UnmarshalEntity(svc, r.value[1])>>

\* cacheSetOrder, cacheSetRepository, cacheSetAuditLog: the entries afterwards
cacheSetEntity(payload) ==
    IF ~Usable THEN store
    ELSE SetJSON(EntityKey(svc, EntityId(svc, payload)),
                 MarshalEntity(svc, payload), EntityTTL)

\* cacheDeleteOrder, cacheDeleteRepository, cacheDeleteAuditLog
cacheDeleteEntity(id) ==
    IF ~Usable THEN store ELSE Delete(EntityKey(svc, id))

\* cacheGetOrderList and the like: the rows and total, or not ok
cacheGetList(query) ==
    IF ~Usable THEN <<>>
    ELSE LET r == GetJSON(ListCacheKey(svc, query)) IN
         IF r.err \/ ~r.found THEN <<>> ELSE <<UnmarshalList(r.value[1])>>

cacheSetList_NoTTL(query, rows, total) ==
    IF ~Usable THEN store
    ELSE SetJSON(ListCacheKey(svc, query), MarshalList(rows, total), 0)

\* cacheSetOrderList and the like
cacheSetList(query, rows, total) ==
    IF ~Usable THEN store
    ELSE SetJSON(ListCacheKey(svc, query), MarshalList(rows, total), ListTTL)

----------------------------------------------------------------------------
(* The services' repositories: the source of truth *)

\* repo.FindByID: the row, or none for gorm.ErrRecordNotFound
FindByID(id) ==
    IF id \in DOMAIN db /\ db[id].Status # StatusDeleted THEN <<db[id]>> ELSE <<>>

\* the rows of ids 1..n that a query's status filter selects, newest first
RECURSIVE Select(_, _)
Select(query, n) ==
    IF n = 0 THEN <<>>
    ELSE IF IF query.Status # <<>> THEN db[n].Status = query.Status[1]
            ELSE db[n].Status # StatusDeleted
         THEN <<db[n]>> \o Select(query, n - 1)
         ELSE Select(query, n - 1)

\* repo.List of a query without other filters, whose page holds every row
List(query) ==
    LET rows == Select(query, Len(db)) IN [rows |-> rows, total |-> Len(rows)]

----------------------------------------------------------------------------
(* The services' operations.  dbOk: the database answers the operation's    *)
(* statements; the history variable last records what the operation         *)
(* returned (err, value), whether it asked the repository (source), and for *)
(* a list the query.                                                        *)

Result(op, id, err, value, source, query) ==
    [op |-> op, id |-> id, err |-> err, value |-> value, source |-> source,
     query |-> query]

\* what GetUser returns to the order service: an error and no user, or a user
Lookups ==
    {[err |-> ErrNil, user |-> <<ActiveUser>>],
     [err |-> ErrNil, user |-> <<[ID |-> 1, Status |-> <<"inactive">>]>>],
     [err |-> ErrCodeCircuitOpen, user |-> <<>>],
     [err |-> ErrCodeServiceUnavail, user |-> <<>>],
     [err |-> ErrCodeInternal, user |-> <<>>],
     [err |-> ErrTooManyRequests, user |-> <<>>]}

\* the lookup of a user that is found and active
LookupActive == [err |-> ErrNil, user |-> <<ActiveUser>>]

\* the inputs that matter to service s: only the order service looks the user
\* up, only the repository service checks a name
LookupsOf(s) == IF s = "orders" THEN Lookups ELSE {LookupActive}

UsersOf(s) == IF s = "orders" THEN {<<>>, <<ActiveUser>>} ELSE {<<>>}

ConflictsOf(s) == IF s = "repositories" THEN BOOLEAN ELSE {FALSE}

CreateOrderRefusal_NoDegrade(err, user) ==
    IF err # ErrNil THEN err
    ELSE IF user[1].Status # StatusActive THEN ErrCodeBadRequest
    ELSE ErrNil

\* CreateOrder after GetUser returned (user, err): the error it returns before
\* it writes anything, or nil when it goes on to persist the order.  Of the
\* errors only an AppError of code CIRCUIT_OPEN or SERVICE_UNAVAILABLE lets it
\* go on
CreateOrderRefusal(err, user) ==
    IF err # ErrNil
    THEN IF err \in {ErrCodeCircuitOpen, ErrCodeServiceUnavail} THEN ErrNil ELSE err
    ELSE IF user[1].Status # StatusActive THEN ErrCodeBadRequest
    ELSE ErrNil

\* what a service returns for a row: the order service adds the user
Payload(row, user) == IF svc = "orders" THEN OrderWithUser(row, user) ELSE row

\* the other cache variables and the other parts stay as they are
CacheFrame ==
    UNCHANGED <<svc, cacheCfg, redisUp, ctime,
                breakerVars, limiterVars, keyVars, orderVars, platformVars>>

\* CreateOrder, CreateRepository, CreateAuditLog.  lookup: what GetUser
\* returns (orders); conflict: FindByName finds the name (repositories)
CreateEntity(lookup, conflict, dbOk) ==
    LET id == Len(db) + 1
        row == [ID |-> id, Data |-> 0, Status |-> StatusActive]
        refusal == CASE svc = "orders" -> CreateOrderRefusal(lookup.err, lookup.user)
                     [] svc = "repositories" /\ ~dbOk -> ErrCodeInternal
                     [] svc = "repositories" /\ conflict -> ErrCodeConflict
                     [] OTHER -> ErrNil
        payload == Payload(row, lookup.user)
    IN
    /\ id \in EntityIds
    /\ IF refusal # ErrNil
       THEN /\ last' = Result("create", 0, refusal, <<>>, svc = "repositories", <<>>)
            /\ UNCHANGED <<db, store>>
       ELSE IF ~dbOk
       THEN /\ last' = Result("create", 0, ErrCodeInternal, <<>>, TRUE, <<>>)
            /\ UNCHANGED <<db, store>>
       ELSE /\ db' = Append(db, row)
            /\ store' = cacheSetEntity(payload)
            /\ last' = Result("create", id, ErrNil, <<payload>>, TRUE, <<>>)
    /\ CacheFrame

\* what GetOrder, GetRepository, GetAuditLog return when they ask the
\* repository: the error and the payload
getFromSource(id, user, dbOk) ==
    IF ~dbOk THEN [err |-> ErrCodeInternal, value |-> <<>>]
    ELSE IF FindByID(id) = <<>> THEN [err |-> ErrCodeNotFound, value |-> <<>>]
    ELSE [err |-> ErrNil, value |-> <<Payload(FindByID(id)[1], user)>>]

\* GetOrder, GetRepository, GetAuditLog.  user: the user GetUser returns
\* after a miss (orders), none when it fails
GetEntity(id, user, dbOk) ==
    LET cached == cacheGetEntity(id)
        r == getFromSource(id, user, dbOk)
    IN
    /\ IF cached # <<>>
       THEN /\ last' = Result("get", id, ErrNil, cached, FALSE, <<>>)
            /\ UNCHANGED store
       ELSE /\ last' = Result("get", id, r.err, r.value, TRUE, <<>>)
            /\ store' = IF r.err = ErrNil THEN cacheSetEntity(r.value[1]) ELSE store
    /\ UNCHANGED db
    /\ CacheFrame

\* the statuses an update request may set: UpdateAuditLogRequest.Status is
\* `oneof=active deleted`
UpdateStatuses(s) ==
    IF s = "audit-logs" THEN {<<>>, <<StatusDeleted>>} ELSE {<<>>}

refreshAfterUpdate_AlwaysSet(id, row) == cacheSetEntity(Payload(row, <<>>))

\* the last statement of UpdateOrder (cacheDeleteOrder), UpdateRepository
\* (cacheSetRepository) and UpdateAuditLog (cacheSetAuditLog)
refreshAfterUpdate(id, row) ==
    IF svc = "orders" THEN cacheDeleteEntity(id) ELSE cacheSetEntity(row)

\* UpdateOrder, UpdateRepository, UpdateAuditLog.  data: the fields the
\* request sets; status: the status it sets, or none; conflict: the request
\* renames a repository to a name that exists
UpdateEntity(id, data, status, conflict, dbOk) ==
    LET found == FindByID(id)
        row == [found[1] EXCEPT !.Data = data,
                                !.Status = IF status # <<>> THEN status[1] ELSE @]
        err == CASE ~dbOk -> ErrCodeInternal
                 [] found = <<>> -> ErrCodeNotFound
                 [] svc = "repositories" /\ conflict -> ErrCodeConflict
                 [] OTHER -> ErrNil
    IN
    /\ IF err # ErrNil
       THEN /\ last' = Result("update", id, err, <<>>, TRUE, <<>>)
            /\ UNCHANGED <<db, store>>
       ELSE /\ db' = [db EXCEPT ![id] = row]
            /\ store' = refreshAfterUpdate(id, row)
            /\ last' = Result("update", id, ErrNil, <<row>>, TRUE, <<>>)
    /\ CacheFrame

\* DeleteOrder, DeleteRepository, DeleteAuditLog: a soft delete by status
DeleteEntity(id, dbOk) ==
    LET err == CASE ~dbOk -> ErrCodeInternal
                 [] FindByID(id) = <<>> -> ErrCodeNotFound
                 [] OTHER -> ErrNil
    IN
    /\ IF err # ErrNil
       THEN /\ last' = Result("delete", id, err, <<>>, TRUE, <<>>)
            /\ UNCHANGED <<db, store>>
       ELSE /\ db' = [db EXCEPT ![id].Status = StatusDeleted]
            /\ store' = cacheDeleteEntity(id)
            /\ last' = Result("delete", id, ErrNil, <<>>, TRUE, <<>>)
    /\ CacheFrame

\* a list query of service s with a status filter and no other filter, as the
\* handler binds it
ListQuery(s, status) ==
    CASE s = "orders" ->
           [Page |-> 0, PageSize |-> 0, UserID |-> <<>>, OrderStatus |-> <<>>,
            Status |-> status, ProductID |-> <<>>]
      [] s = "repositories" ->
           [Page |-> 0, PageSize |-> 0, Search |-> <<>>, OwnerID |-> <<>>,
            Visibility |-> <<>>, Status |-> status]
      [] OTHER ->
           [Page |-> 0, PageSize |-> 0, Search |-> <<>>, Actor |-> <<>>,
            Action |-> <<>>, ResourceType |-> <<>>, ResourceID |-> <<>>,
            Status |-> status]

\* the status filters of the list queries that are made
ListStatuses == {<<>>}

\* what ListOrders, ListRepositories, ListAuditLogs return when they ask the
\* repository
listFromSource(query, dbOk) ==
    IF ~dbOk THEN [err |-> ErrCodeInternal, value |-> <<>>]
    ELSE [err |-> ErrNil, value |-> <<List(query)>>]

\* ListOrders, ListRepositories, ListAuditLogs
ListEntities(status, dbOk) ==
    LET query == ApplyDefaults(ListQuery(svc, status))
        cached == cacheGetList(query)
        r == listFromSource(query, dbOk)
    IN
    /\ IF cached # <<>>
       THEN /\ last' = Result("list", 0, ErrNil, cached, FALSE, <<query>>)
            /\ UNCHANGED store
       ELSE /\ last' = Result("list", 0, r.err, r.value, TRUE, <<query>>)
            /\ store' = IF r.err = ErrNil
                        THEN cacheSetList(query, r.value[1].rows, r.value[1].total)
                        ELSE store
    /\ UNCHANGED db
    /\ CacheFrame

\* the backend's clock advances; the backend drops the entries that expire
CacheTick ==
    /\ ctime < MaxCacheTime
    /\ ctime' = ctime + 1
    /\ store' = [k \in {j \in DOMAIN store :
                          store[j].expires = NoExpiry \/ ctime + 1 < store[j].expires}
                   |-> store[k]]
    /\ UNCHANGED <<svc, cacheCfg, redisUp, db, last,
                   breakerVars, limiterVars, keyVars, orderVars, platformVars>>

\* the service loses the backend: every cache operation fails from now on
RedisDown ==
    /\ cacheCfg = "enabled"
    /\ redisUp
    /\ redisUp' = FALSE
    /\ UNCHANGED <<svc, cacheCfg, db, store, ctime, last,
                   breakerVars, limiterVars, keyVars, orderVars, platformVars>>

\* the backend answers again, with the entries it had
RedisUp ==
    /\ cacheCfg = "enabled"
    /\ ~redisUp
    /\ redisUp' = TRUE
    /\ UNCHANGED <<svc, cacheCfg, db, store, ctime, last,
                   breakerVars, limiterVars, keyVars, orderVars, platformVars>>

----------------------------------------------------------------------------
(* List queries and their cache keys *)

\* the page and page size of a query, as the handler binds them: absent (0)
\* or given
Pagings ==
    {[Page |-> 0, PageSize |-> 0], [Page |-> 1, PageSize |-> 10],
     [Page |-> 2, PageSize |-> 10], [Page |-> 1, PageSize |-> 20]}

\* the values of a free-text filter: absent, a word, the sentinels, a padded
\* word
FreeTexts == {<<>>, <<"x">>, <<"all">>, <<" ", "x">>}

\* model.ListOrdersQuery
OrderQueries ==
    {paging @@ filters :
       paging \in Pagings,
       filters \in [UserID : {<<>>, <<1>>},
                    OrderStatus : {<<>>, <<(<<"pending">>)>>},
                    Status : {<<>>, <<StatusDeleted>>},
                    ProductID : FreeTexts]}

\* model.ListRepositoriesQuery
RepositoryQueries ==
    {paging @@ filters :
       paging \in Pagings,
       filters \in [Search : FreeTexts,
                    OwnerID : {<<>>, <<1>>},
                    Visibility : {<<>>, <<"public">>},
                    Status : {<<>>, <<StatusDeleted>>}]}

\* model.ListAuditLogsQuery
AuditLogQueries ==
    {paging @@ filters :
       paging \in Pagings,
       filters \in [Search : {<<>>, <<"all">>},
                    Actor : {<<"a">>, <<"a", ":", "action", ":", "b">>},
                    Action : {<<"c">>, <<"b", ":", "action", ":", "c">>},
                    ResourceType : {<<>>, <<"any">>},
                    ResourceID : {<<>>, <<"r">>},
                    Status : {<<>>, <<StatusDeleted>>}]}

QueriesOf(s) ==
    CASE s = "orders" -> OrderQueries
      [] s = "repositories" -> RepositoryQueries
      [] OTHER -> AuditLogQueries

\* ListOrders (ListRepositories, ListAuditLogs) up to the cache key: the
\* defaults are applied, then the key is computed
ListKeyOf(s, query) == ListCacheKey(s, ApplyDefaults(query))

\* the service computes the keys of the two queries
ComputeListKeys ==
    /\ listKeys = <<>>
    /\ Len(queries) = 2
    /\ listKeys' = <<ListKeyOf(svc, queries[1]), ListKeyOf(svc, queries[2])>>
    /\ UNCHANGED <<queries, cacheVars, breakerVars, limiterVars, orderVars, platformVars>>

----------------------------------------------------------------------------
(* order service: CreateOrder over the user client, and the handler's answer *)

\* http.StatusCreated
StatusCreated == 201

\* the codes of the *errors.AppError values an error of GetUser may be; the
\* errors of gobreaker and of the context are not AppErrors
AppErrorCodes ==
    {ErrCodeInternal, ErrCodeNotFound, ErrCodeCircuitOpen, ErrCodeServiceUnavail,
     ErrCodeBadRequest, ErrCodeEnvelope}

\* the goroutine that serves the create-order requests, one after the other
OrderCallers == {"c1"}

\* OrderHandler.CreateOrder: the answer to what the service returned.
\* response.Error turns an error that is no AppError into INTERNAL_ERROR.
\* persisted and asked are history: whether repo.Create stored the order and
\* whether the user service was called
Answer(err, user, asked) ==
    LET code == IF err = ErrNil \/ err \in AppErrorCodes THEN err ELSE ErrCodeInternal
    IN [status |-> IF err = ErrNil THEN StatusCreated ELSE getStatusCode(code),
        code |-> code,
        user |-> IF err = ErrNil THEN user ELSE <<>>,
        persisted |-> err = ErrNil,
        asked |-> asked]

\* orderService.CreateOrder after GetUser returned (user, err); dbOk: the
\* database lets repo.Create succeed
createOrder(err, user, asked, dbOk) ==
    LET refusal == CreateOrderRefusal(err, user) IN
    IF refusal # ErrNil THEN Answer(refusal, <<>>, asked)
    ELSE IF ~dbOk THEN Answer(ErrCodeInternal, <<>>, asked)
    ELSE Answer(ErrNil, IF err = ErrNil THEN user ELSE <<>>, asked)

\* a create-order request arrives: CreateOrder calls GetUser, which either is
\* refused at once, and CreateOrder finishes, or starts doGetRequest
CreateOrderCall(c, ctxDone, dbOk) ==
    /\ pc[c] = "idle"
    /\ ExecuteWithContext(c, ctxDone)
    /\ created' = IF pc'[c] = "idle" THEN createOrder(ret', <<>>, FALSE, dbOk)
                  ELSE created
    /\ UNCHANGED <<now, limiterVars, cacheVars, keyVars, platformVars>>

CreateOrder(c) ==
    \E ctxDone, dbOk \in BOOLEAN : CreateOrderCall(c, ctxDone, dbOk)

\* the users a successful lookup may return: active or not
LookupUsers == {<<ActiveUser>>, <<[ID |-> 1, Status |-> <<"inactive">>]>>}

\* doGetRequest ends with resp (and with user when resp is a success):
\* GetUser returns and CreateOrder finishes
CreateOrderAnswer(c, resp, user, dbOk) ==
    /\ Return(c, resp)
    /\ created' = createOrder(ret', user, TRUE, dbOk)

CreateOrderReturn(c) ==
    \E resp \in Responses, user \in LookupUsers, dbOk \in BOOLEAN :
       CreateOrderAnswer(c, resp, user, dbOk)

----------------------------------------------------------------------------
(* config.Load and main: the start of a service.  A value of the           *)
(* environment is a string of characters.                                   *)

\* what an environment variable may hold: nothing, "0", "5", "-5", "5x"
EnvValues == {<<>>, <<"0">>, <<"5">>, <<"-", "5">>, <<"5", "x">>}

\* the environments of a service: its rate limit, the breaker's interval
\* and timeout, the cache's default TTL
Environments ==
    [rateLimit : EnvValues, interval : EnvValues, timeout : EnvValues,
     ttl : EnvValues]

\* the digit a character stands for, or -1
DigitOf(ch) ==
    IF \E d \in 1..10 : DigitChars[d] = ch
    THEN (CHOOSE d \in 1..10 : DigitChars[d] = ch) - 1
    ELSE -1

RECURSIVE ParseDigits(_, _)
\* the number that acc followed by the digits of s stands for, or -1 when s
\* holds another character
ParseDigits(s, acc) ==
    IF s = <<>> THEN acc
    ELSE IF DigitOf(Head(s)) < 0 THEN -1
    ELSE ParseDigits(Tail(s), 10 * acc + DigitOf(Head(s)))

\* strconv.Atoi: an optional sign and at least one digit
Atoi(s) ==
    LET signed == s # <<>> /\ Head(s) \in {"-", "+"}
        digits == IF signed THEN Tail(s) ELSE s
        n == IF digits = <<>> THEN -1 ELSE ParseDigits(digits, 0)
    IN  IF n < 0 THEN [err |-> TRUE, value |-> 0]
        ELSE [err |-> FALSE, value |-> IF signed /\ Head(s) = "-" THEN 0 - n ELSE n]

\* config.getEnv
getEnv(value, defaultValue) == IF value = <<>> THEN defaultValue ELSE value

\* n, err := strconv.Atoi(getEnv(KEY, "default")); if err != nil { n = default }
AtoiOrDefault(value, defaultValue) ==
    LET r == Atoi(getEnv(value, FormatUint(defaultValue)))
    IN  IF r.err THEN defaultValue ELSE r.value

\* ORDER_SERVICE_RATE_LIMIT and REDIS_TTL_SECONDS when they are not set
DefaultRateLimit == 100
DefaultTTLSeconds == 300

\* config.Load: it returns no error
Load(env) ==
    [err |-> FALSE,
     RateLimit |-> AtoiOrDefault(env.rateLimit, DefaultRateLimit),
     Interval |-> AtoiOrDefault(env.interval, IntervalSeconds),
     Timeout |-> AtoiOrDefault(env.timeout, TimeoutSeconds),
     DefaultTTL |-> AtoiOrDefault(env.ttl, DefaultTTLSeconds)]

\* main's way from its start to the server that listens, or to os.Exit
Booted(phase, env, cfg, answer) ==
    [phase |-> phase, env |-> env, cfg |-> cfg, answer |-> answer]

\* main: cfg, err := config.Load(); if err != nil { os.Exit(1) }
MainLoad ==
    /\ boot.phase = "start"
    /\ LET cfg == Load(boot.env) IN
       boot' = IF cfg.err THEN Booted("exited", boot.env, <<>>, "none")
               ELSE Booted("loaded", boot.env, <<cfg>>, "none")
    /\ UNCHANGED <<breakerVars, limiterVars, cacheVars, keyVars, orderVars, tokenVars, authVars, raceVars>>

\* main: connectDatabase and AutoMigrate (log.Fatal when they fail), the
\* dependencies, NewRateLimiter(cfg.Server.RateLimit, cfg.Server.RateLimit*2),
\* the router, and srv.ListenAndServe
MainServe(dbOk) ==
    /\ boot.phase = "loaded"
    /\ boot' = [boot EXCEPT !.phase = IF dbOk THEN "serving" ELSE "exited"]
    /\ UNCHANGED <<breakerVars, limiterVars, cacheVars, keyVars, orderVars, tokenVars, authVars, raceVars>>

\* the first request to the serving service passes RateLimiter.Middleware
\* with the limiter main built
FirstRequest ==
    /\ boot.phase = "serving"
    /\ boot.answer = "none"
    /\ LET cfg == boot.cfg[1]
           limiter == NewRateLimiter(cfg.RateLimit, cfg.RateLimit * 2)
       IN  boot' = [boot EXCEPT !.answer =
                       IF reserveN(NewLimiter(limiter.limit, limiter.burst, 0), 0).ok
                       THEN "handler" ELSE ErrCodeRateLimit]
    /\ UNCHANGED <<breakerVars, limiterVars, cacheVars, keyVars, orderVars, tokenVars, authVars, raceVars>>

\* main starts with an environment
BootStart(env) == boot = Booted("start", env, <<>>, "none")

----------------------------------------------------------------------------
(* common/auth: CachedTokenProvider.  Time is counted in minutes.  A token  *)
(* is named by the call of GenerateToken that made it: <<n>> is the token   *)
(* of the n-th call, <<>> is the empty string.                              *)

\* the provider's clock stops here
MaxTokenTime == 5
\* at most this many tokens are generated
MaxGenerated == 3

\* goroutines that call GetToken
Getters == {"g1", "g2"}

\* NewCachedTokenProvider: renewalThreshold = 5 * time.Minute when it is 0
DefaultRenewalThreshold == 5

\* the providers of the model: Config.TokenTTL, whether Config.Secret is
\* empty, and the renewalThreshold argument
TokenTTLs == {2, 6}
RenewalThresholds == {0, 2}

NoWriter == "none"

\* NewCachedTokenProvider; mu is the goroutine that holds the write lock
NewCachedTokenProvider(ttl, secret, renewalThreshold) ==
    [TokenTTL |-> ttl, Secret |-> secret,
     renewalThreshold |-> IF renewalThreshold = 0 THEN DefaultRenewalThreshold
                          ELSE renewalThreshold,
     currentToken |-> <<>>, expiresAt |-> ZeroTime, mu |-> NoWriter, clock |-> 1]

isTokenValid_AtExpiry(p) ==
    p.currentToken # <<>> /\ p.clock < p.expiresAt

\* CachedTokenProvider.isTokenValid
isTokenValid(p) ==
    /\ p.currentToken # <<>>
    /\ p.clock < p.expiresAt - p.renewalThreshold

\* a goroutine outside GetToken, with what its last call returned
Returned_(token, err) == [pc |-> "idle", token |-> token, err |-> err]

\* the calls that found no valid token on the fast path while another such
\* call was running: who they are, what they returned, how many tokens they
\* generated, whether InvalidateToken ran or a cached token reached its
\* renewal time meanwhile
NoCohort ==
    [members |-> {}, outs |-> [g \in {} |-> <<>>], generated |-> 0, clean |-> TRUE, intime |-> TRUE]

Running == {g \in Getters : getters[g].pc # "idle"}

\* the history after the call of g returned token
Finish(g, token, made) ==
    IF g \in tokenLog.cohort.members /\ g \notin DOMAIN tokenLog.cohort.outs
    THEN [tokenLog EXCEPT !.cohort.outs = (g :> token) @@ @,
                          !.cohort.generated = @ + made,
                          !.generated = @ + made]
    ELSE [tokenLog EXCEPT !.generated = @ + made]

\* GetToken up to the first RUnlock: the check under the read lock
GetTokenFast(g) ==
    /\ getters[g].pc = "idle"
    /\ provider.mu = NoWriter
    /\ tokenLog.generated + Cardinality(Running) < MaxGenerated
    /\ IF isTokenValid(provider)
       THEN /\ getters' = [getters EXCEPT ![g] = Returned_(provider.currentToken, FALSE)]
            /\ UNCHANGED tokenLog
       ELSE /\ getters' = [getters EXCEPT ![g].pc = "lock"]
            /\ tokenLog' =
                  IF Running = {}
                  THEN [tokenLog EXCEPT !.cohort = [NoCohort EXCEPT !.members = {g}]]
                  ELSE IF g \in tokenLog.cohort.members THEN tokenLog
                  ELSE [tokenLog EXCEPT !.cohort.members = @ \cup {g}]
    /\ UNCHANGED provider
    /\ UNCHANGED <<breakerVars, limiterVars, cacheVars, keyVars, orderVars, bootVars, authVars, raceVars>>

GetTokenLock_NoDoubleCheck(g) ==
    /\ getters[g].pc = "lock"
    /\ provider.mu = NoWriter
    /\ provider' = [provider EXCEPT !.mu = g]
    /\ getters' = [getters EXCEPT ![g].pc = "generate"]
    /\ UNCHANGED tokenLog
    /\ UNCHANGED <<breakerVars, limiterVars, cacheVars, keyVars, orderVars, bootVars, authVars, raceVars>>

\* GetToken: p.mu.Lock() and the second check
GetTokenLock(g) ==
    /\ getters[g].pc = "lock"
    /\ provider.mu = NoWriter
    /\ IF isTokenValid(provider)
       THEN /\ getters' = [getters EXCEPT ![g] = Returned_(provider.currentToken, FALSE)]
            /\ tokenLog' = Finish(g, provider.currentToken, 0)
            /\ UNCHANGED provider
       ELSE /\ provider' = [provider EXCEPT !.mu = g]
            /\ getters' = [getters EXCEPT ![g].pc = "generate"]
            /\ UNCHANGED tokenLog
    /\ UNCHANGED <<breakerVars, limiterVars, cacheVars, keyVars, orderVars, bootVars, authVars, raceVars>>

\* GetToken: GenerateToken, which fails when the secret is empty
GetTokenGenerate(g) ==
    /\ getters[g].pc = "generate"
    /\ IF provider.Secret = ""
       THEN /\ getters' = [getters EXCEPT ![g] = Returned_(<<>>, TRUE)]
            /\ provider' = [provider EXCEPT !.mu = NoWriter]
            /\ tokenLog' = Finish(g, <<>>, 0)
       ELSE /\ getters' = [getters EXCEPT ![g].pc = "update",
                                          ![g].token = <<tokenLog.generated + 1>>]
            /\ tokenLog' = Finish(g, <<tokenLog.generated + 1>>, 1)
            /\ UNCHANGED provider
    /\ UNCHANGED <<breakerVars, limiterVars, cacheVars, keyVars, orderVars, bootVars, authVars, raceVars>>

\* GetToken: the cache is updated, the lock released, the token returned
GetTokenUpdate(g) ==
    /\ getters[g].pc = "update"
    /\ provider' = [provider EXCEPT !.currentToken = getters[g].token,
                                    !.expiresAt = provider.clock + provider.TokenTTL,
                                    !.mu = NoWriter]
    /\ getters' = [getters EXCEPT ![g] = Returned_(getters[g].token, FALSE)]
    /\ UNCHANGED tokenLog
    /\ UNCHANGED <<breakerVars, limiterVars, cacheVars, keyVars, orderVars, bootVars, authVars, raceVars>>

InvalidateToken_KeepsToken ==
    /\ provider.mu = NoWriter
    /\ provider' = [provider EXCEPT !.expiresAt = ZeroTime]
    /\ tokenLog' = [tokenLog EXCEPT !.cohort.clean = FALSE,
                                    !.stale = provider.currentToken,
                                    !.staleValid = isTokenValid(provider)]
    /\ UNCHANGED getters
    /\ UNCHANGED <<breakerVars, limiterVars, cacheVars, keyVars, orderVars, bootVars, authVars, raceVars>>

\* CachedTokenProvider.InvalidateToken; the history keeps the token that was
\* cached and whether it was valid
InvalidateToken ==
    /\ provider.mu = NoWriter
    /\ provider' = [provider EXCEPT !.currentToken = <<>>, !.expiresAt = ZeroTime]
    /\ tokenLog' = [tokenLog EXCEPT !.cohort.clean = FALSE,
                                    !.stale = provider.currentToken,
                                    !.staleValid = isTokenValid(provider)]
    /\ UNCHANGED getters
    /\ UNCHANGED <<breakerVars, limiterVars, cacheVars, keyVars, orderVars, bootVars, authVars, raceVars>>

\* a minute passes
TokenTick ==
    /\ provider.clock < MaxTokenTime
    /\ provider' = [provider EXCEPT !.clock = @ + 1]
    /\ tokenLog' =
          IF isTokenValid(provider) /\ ~isTokenValid(provider')
          THEN [tokenLog EXCEPT !.cohort.intime = FALSE]
          ELSE tokenLog
    /\ UNCHANGED getters
    /\ UNCHANGED <<breakerVars, limiterVars, cacheVars, keyVars, orderVars, bootVars, authVars, raceVars>>

\* a provider that nobody has called
TokenStart(p) ==
    /\ provider = p
    /\ getters = [g \in Getters |-> Returned_(<<>>, FALSE)]
    /\ tokenLog = [generated |-> 0, stale |-> <<>>, staleValid |-> FALSE,
                   cohort |-> NoCohort]

----------------------------------------------------------------------------
(* common/middleware: AuthMiddleware and RequireRoles in front of a         *)
(* handler.  A header is a string of words and spaces; a word after the     *)
(* scheme names a JWT.                                                      *)

\* JSON Web Tokens by name: how they were made
Jwt(alg, secret, expired, issuer, audience, roles) ==
    [alg |-> alg, secret |-> secret, expired |-> expired, issuer |-> issuer,
     audience |-> audience, roles |-> roles]

JwtOf(word) ==
    CASE word = "admin" -> <<Jwt("HS256", "secret", FALSE, "iss", "aud", <<"admin">>)>>
      [] word = "user" -> <<Jwt("HS256", "secret", FALSE, "iss", "aud", <<"user">>)>>
      [] word = "both" -> <<Jwt("HS256", "secret", FALSE, "iss", "aud", <<"user", "admin">>)>>
      [] word = "noroles" -> <<Jwt("HS256", "secret", FALSE, "iss", "aud", <<>>)>>
      [] word = "expired" -> <<Jwt("HS256", "secret", TRUE, "iss", "aud", <<"admin">>)>>
      [] word = "forged" -> <<Jwt("HS256", "other", FALSE, "iss", "aud", <<"admin">>)>>
      [] word = "unsigned" -> <<Jwt("none", "", FALSE, "iss", "aud", <<"admin">>)>>
      [] word = "foreign" -> <<Jwt("HS256", "secret", FALSE, "other", "aud", <<"admin">>)>>
      [] OTHER -> <<>>

\* values of the Authorization header
Headers ==
    {<<>>, <<"Bearer">>, <<"Bearer", " ">>, <<"Bearer", " ", " ">>,
     <<"Basic", " ", "admin">>, <<"Bearer", " ", "invalid">>,
     <<"Bearer", " ", "admin">>, <<"bearer", " ", "admin">>,
     <<"BEARER", " ", " ", "user", " ">>, <<"Bearer", " ", "user">>,
     <<"Bearer", " ", "both">>, <<"Bearer", " ", "noroles">>,
     <<"Bearer", " ", "expired">>, <<"Bearer", " ", "forged">>,
     <<"Bearer", " ", "unsigned">>, <<"Bearer", " ", "foreign">>,
     <<"Bearer", " ", "admin", " ", "user">>}

\* the auth.Config of a service: the tests', one that checks neither issuer
\* nor audience, one without a secret
AuthConfigs ==
    {[Secret |-> "secret", Issuer |-> "iss", Audience |-> "aud"],
     [Secret |-> "secret", Issuer |-> "", Audience |-> ""],
     [Secret |-> "", Issuer |-> "iss", Audience |-> "aud"]}

\* the roles RequireRoles is built with in the routers, and none
RequiredRoles == {<<>>, <<"admin">>, <<"admin", "user">>}

RECURSIVE IndexOfSpace(_, _)
\* the place of the first space of s from i on, or 0
IndexOfSpace(s, i) ==
    IF i > Len(s) THEN 0 ELSE IF s[i] = " " THEN i ELSE IndexOfSpace(s, i + 1)

\* strings.SplitN(s, " ", 2)
SplitN2(s) ==
    LET i == IndexOfSpace(s, 1) IN
    IF i = 0 THEN <<s>> ELSE <<SubSeq(s, 1, i - 1), SubSeq(s, i + 1, Len(s))>>

\* strings.EqualFold(s, "Bearer")
EqualFoldBearer(s) == s \in {<<"Bearer">>, <<"bearer">>, <<"BEARER">>}

\* extractBearerToken
extractBearerToken(headerValue) ==
    LET parts == SplitN2(headerValue) IN
    IF headerValue = <<>> THEN [token |-> <<>>, err |-> TRUE]
    ELSE IF Len(parts) # 2 \/ ~EqualFoldBearer(parts[1]) THEN [token |-> <<>>, err |-> TRUE]
    ELSE IF TrimSpace(parts[2]) = <<>> THEN [token |-> <<>>, err |-> TRUE]
    ELSE [token |-> TrimSpace(parts[2]), err |-> FALSE]

\* auth.ParseToken: the claims of a token that is one well-formed JWT,
\* signed by HS256 with the secret, not expired, of the issuer and for the
\* audience when they are configured
ParseToken(cfg, tokenString) ==
    LET jwt == IF Len(tokenString) = 1 THEN JwtOf(tokenString[1]) ELSE <<>>
        ok == /\ cfg.Secret # ""
              /\ jwt # <<>>
              /\ jwt[1].alg = "HS256"
              /\ jwt[1].secret = cfg.Secret
              /\ ~jwt[1].expired
              /\ cfg.Issuer # "" => jwt[1].issuer = cfg.Issuer
              /\ cfg.Audience # "" => jwt[1].audience = cfg.Audience
    IN  IF ok THEN [claims |-> jwt, err |-> FALSE] ELSE [claims |-> <<>>, err |-> TRUE]

\* a gin.Context: the header, the roles set in it, the response, whether the
\* chain was aborted, whether the handler ran
Context(header) ==
    [header |-> header, roles |-> <<>>, status |-> 0, code |-> "none",
     aborted |-> FALSE, handler |-> FALSE]

\* response.Error(c, apperrors.New(code, ...)); c.Abort()
AbortWith(c, code) ==
    [c EXCEPT !.status = getStatusCode(code), !.code = code, !.aborted = TRUE]

\* AuthMiddleware, up to c.Next()
AuthMiddleware(cfg, c) ==
    LET extracted == extractBearerToken(c.header)
        parsed == ParseToken(cfg, extracted.token)
    IN  IF extracted.err THEN AbortWith(c, ErrCodeUnauthorized)
        ELSE IF parsed.err THEN AbortWith(c, ErrCodeUnauthorized)
        ELSE [c EXCEPT !.roles = <<parsed.claims[1].roles>>]

hasAnyRole_FirstAssigned(assigned, required) ==
    \E j \in 1..Len(required) : assigned[1] = required[j]

\* hasAnyRole
hasAnyRole(assigned, required) ==
    \E i \in 1..Len(assigned), j \in 1..Len(required) : assigned[i] = required[j]

\* RequireRoles(roles...), up to c.Next()
RequireRoles(roles, c) ==
    IF Len(roles) = 0 THEN c
    ELSE IF c.roles = <<>> THEN AbortWith(c, ErrCodeUnauthorized)
    ELSE IF Len(c.roles[1]) = 0 THEN AbortWith(c, ErrCodeUnauthorized)
    ELSE IF ~hasAnyRole(c.roles[1], roles) THEN AbortWith(c, ErrCodeForbidden)
    ELSE c

\* the handler, which answers 200
Handle(c) == [c EXCEPT !.status = StatusOK, !.handler = TRUE]

\* gin runs the chain AuthMiddleware, RequireRoles(roles...), handler
ServeProtected(cfg, header, roles) ==
    /\ authReq' =
          LET c1 == AuthMiddleware(cfg, Context(header))
              c2 == IF c1.aborted THEN c1 ELSE RequireRoles(roles, c1)
              c3 == IF c2.aborted THEN c2 ELSE Handle(c2)
          IN  [cfg |-> cfg, required |-> roles, c |-> c3]
    /\ UNCHANGED <<breakerVars, limiterVars, cacheVars, keyVars, orderVars, bootVars, tokenVars, raceVars>>

\* no request was served
AuthStart ==
    authReq = [cfg |-> [Secret |-> "", Issuer |-> "", Audience |-> ""],
               required |-> <<>>, c |-> Context(<<>>)]

----------------------------------------------------------------------------
(* GetOrder (GetRepository, GetAuditLog) step by step, in a goroutine of    *)
(* its own, so that the writes of other requests can come in between        *)

\* the reading goroutine outside Get
NotReading == [pc |-> "idle", id |-> 0, row |-> <<>>]

\* the other variables a step of the reading goroutine leaves alone
ReadFrame ==
    UNCHANGED <<svc, cacheCfg, redisUp, ctime, db,
                breakerVars, limiterVars, keyVars, orderVars,
                bootVars, tokenVars, authVars>>

\* GetOrder: cacheGetOrder, which returns the entry if there is one
GetEntityCached(id) ==
    LET cached == cacheGetEntity(id) IN
    /\ reading.pc = "idle"
    /\ IF cached # <<>>
       THEN /\ last' = Result("get", id, ErrNil, cached, FALSE, <<>>)
            /\ UNCHANGED reading
       ELSE /\ reading' = [pc |-> "find", id |-> id, row |-> <<>>]
            /\ UNCHANGED last
    /\ UNCHANGED store
    /\ ReadFrame

\* GetOrder after a miss: s.repo.FindByID
GetEntityFind(dbOk) ==
    LET id == reading.id
        r == getFromSource(id, <<>>, dbOk)
    IN
    /\ reading.pc = "find"
    /\ IF r.err # ErrNil
       THEN /\ last' = Result("get", id, r.err, <<>>, TRUE, <<>>)
            /\ reading' = NotReading
       ELSE /\ reading' = [pc |-> "set", id |-> id, row |-> FindByID(id)]
            /\ UNCHANGED last
    /\ UNCHANGED store
    /\ ReadFrame

\* GetOrder after FindByID: GetUser returned user, the result is built from
\* the row that was read, cacheSetOrder stores it, GetOrder returns it
GetEntityStore(user) ==
    LET payload == Payload(reading.row[1], user) IN
    /\ reading.pc = "set"
    /\ store' = cacheSetEntity(payload)
    /\ last' = Result("get", reading.id, ErrNil, <<payload>>, TRUE, <<>>)
    /\ reading' = NotReading
    /\ ReadFrame

\* nobody is reading
RaceStart == reading = NotReading

\* a service s after NewOrderService (NewRepositoryService,
\* NewAuditLogService) got cache cfg, whose backend answers or not
CacheStart(s, cfg, up) ==
    /\ svc = s
    /\ cacheCfg = cfg
    /\ redisUp = up
    /\ db = <<>>
    /\ store = <<>>
    /\ ctime = 0
    /\ last = Result("none", 0, ErrNil, <<>>, FALSE, <<>>)

\* no list key was asked for
KeysStart ==
    /\ queries = <<>>
    /\ listKeys = <<>>

\* no CreateOrder was called
OrdersStart ==
    created = [status |-> 0, code |-> "none", user |-> <<>>, persisted |-> FALSE,
               asked |-> FALSE]

\* a service that is not observed while it starts
BootIdle ==
    BootStart([rateLimit |-> <<>>, interval |-> <<>>, timeout |-> <<>>, ttl |-> <<>>])

\* a token provider that is not observed
TokenIdle == TokenStart(NewCachedTokenProvider(6, "secret", 0))

PlatformStart == BootIdle /\ TokenIdle /\ AuthStart /\ RaceStart


Init ==
    /\ \E m \in ConfigMaxRequests : BreakerStart(m)
    /\ LimiterStart(NewRateLimiter(TestRequestsPerSecond, TestBurst))
    /\ CacheStart("orders", "enabled", TRUE)
    /\ KeysStart
    /\ OrdersStart
    /\ PlatformStart

Next ==
    \/ \E c \in Callers : GetUser(c)
    \/ \E c \in Callers : GetUserReturn(c)
    \/ State
    \/ Tick

Spec == Init /\ [][Next]_vars

\* requests that are served one after the other
InitLimiter ==
    /\ BreakerStart(DefaultMaxRequests)
    /\ \E limiter \in LimiterConfigs : LimiterStart(limiter)
    /\ CacheStart("orders", "enabled", TRUE)
    /\ KeysStart
    /\ OrdersStart
    /\ PlatformStart

NextLimiter ==
    \/ \E p \in SequentialProcs, key \in Keys : getLimiterLoad(p, key)
    \/ \E p \in SequentialProcs : getLimiterStore(p)
    \/ \E p \in SequentialProcs, s \in HandlerStatuses : Middleware(p, s)
    \/ TickLimiter

SpecLimiter == InitLimiter /\ [][NextLimiter]_vars

\* a request of key arrives while others may be in the middleware: gin runs
\* Middleware for it in goroutine p
ServeConcurrently(p, key) ==
    /\ Served(Keys) + Cardinality(InMiddleware) < MaxConcurrentServed
    /\ getLimiterLoad(p, key)

\* requests that are served at the same time, each by its own goroutine
NextLimiterConcurrent ==
    \/ \E p \in RequestProcs, key \in Keys : ServeConcurrently(p, key)
    \/ \E p \in RequestProcs : getLimiterStore(p)
    \/ \E p \in RequestProcs, s \in HandlerStatuses : Middleware(p, s)
    \/ TickLimiter

SpecLimiterConcurrent == InitLimiter /\ [][NextLimiterConcurrent]_vars

\* CleanupStaleEntries is called between two requests
CleanupBetweenRequests ==
    /\ InMiddleware = {}
    /\ CleanupStaleEntries

\* requests that are served one after the other, and the periodic cleanup
NextLimiterCleanup ==
    \/ NextLimiter
    \/ CleanupBetweenRequests

SpecLimiterCleanup == InitLimiter /\ [][NextLimiterCleanup]_vars

\* requests that are served one after the other while the periodic cleanup
\* runs in its own goroutine: CleanupStaleEntries may run at any point of a
\* request, also between its getLimiter and its limiter.Allow()
NextLimiterCleanupRace ==
    \/ \E p \in SequentialProcs, key \in Keys : ServeConcurrently(p, key)
    \/ \E p \in SequentialProcs : getLimiterStore(p)
    \/ \E p \in SequentialProcs, s \in HandlerStatuses : Middleware(p, s)
    \/ TickLimiter
    \/ CleanupStaleEntries

SpecLimiterCleanupRace == InitLimiter /\ [][NextLimiterCleanupRace]_vars

\* one service with its cache, its operations on single entities one after
\* the other
InitCache ==
    /\ BreakerStart(DefaultMaxRequests)
    /\ LimiterStart(NewRateLimiter(TestRequestsPerSecond, TestBurst))
    /\ \E s \in Services, cfg \in CacheConfigs : CacheStart(s, cfg, TRUE)
    /\ KeysStart
    /\ OrdersStart
    /\ PlatformStart

NextCache ==
    \/ \E lookup \in LookupsOf(svc), conflict \in ConflictsOf(svc), dbOk \in BOOLEAN :
          CreateEntity(lookup, conflict, dbOk)
    \/ \E id \in EntityIds, user \in UsersOf(svc), dbOk \in BOOLEAN :
          GetEntity(id, user, dbOk)
    \/ \E id \in EntityIds, data \in DataValues, status \in UpdateStatuses(svc),
          conflict \in ConflictsOf(svc), dbOk \in BOOLEAN :
          UpdateEntity(id, data, status, conflict, dbOk)
    \/ \E id \in EntityIds, dbOk \in BOOLEAN : DeleteEntity(id, dbOk)
    \/ RedisDown
    \/ RedisUp

SpecCache == InitCache /\ [][NextCache]_vars

\* one service with its cache: writes that the user service and the database
\* let succeed, and the list reads, as time passes
NextCacheList ==
    \/ CreateEntity(LookupActive, FALSE, TRUE)
    \/ \E id \in EntityIds, data \in DataValues, status \in UpdateStatuses(svc) :
          UpdateEntity(id, data, status, FALSE, TRUE)
    \/ \E id \in EntityIds : DeleteEntity(id, TRUE)
    \/ \E status \in ListStatuses, dbOk \in BOOLEAN : ListEntities(status, dbOk)
    \/ CacheTick

SpecCacheList == InitCache /\ [][NextCacheList]_vars

\* a service whose cache is nil or disabled, or whose backend never answers
InitCacheDegraded ==
    /\ BreakerStart(DefaultMaxRequests)
    /\ LimiterStart(NewRateLimiter(TestRequestsPerSecond, TestBurst))
    /\ \E s \in Services, cfg \in CacheConfigs : CacheStart(s, cfg, cfg # "enabled")
    /\ KeysStart
    /\ OrdersStart
    /\ PlatformStart

NextCacheDegraded ==
    \/ \E lookup \in LookupsOf(svc), conflict \in ConflictsOf(svc), dbOk \in BOOLEAN :
          CreateEntity(lookup, conflict, dbOk)
    \/ \E id \in EntityIds, user \in UsersOf(svc), dbOk \in BOOLEAN :
          GetEntity(id, user, dbOk)
    \/ \E id \in EntityIds, data \in DataValues, status \in UpdateStatuses(svc),
          conflict \in ConflictsOf(svc), dbOk \in BOOLEAN :
          UpdateEntity(id, data, status, conflict, dbOk)
    \/ \E id \in EntityIds, dbOk \in BOOLEAN : DeleteEntity(id, dbOk)
    \/ \E status \in ListStatuses, dbOk \in BOOLEAN : ListEntities(status, dbOk)
    \/ CacheTick

SpecCacheDegraded == InitCacheDegraded /\ [][NextCacheDegraded]_vars

\* a service that is asked for the cache keys of two list queries
InitListKeys ==
    /\ BreakerStart(DefaultMaxRequests)
    /\ LimiterStart(NewRateLimiter(TestRequestsPerSecond, TestBurst))
    /\ \E s \in Services :
          /\ CacheStart(s, "enabled", TRUE)
          /\ \E q1, q2 \in QueriesOf(s) : queries = <<q1, q2>>
    /\ listKeys = <<>>
    /\ OrdersStart
    /\ PlatformStart

NextListKeys == ComputeListKeys

SpecListKeys == InitListKeys /\ [][NextListKeys]_vars

\* the order service serving create-order requests, one after the other
NextOrders ==
    \/ \E c \in OrderCallers : CreateOrder(c)
    \/ \E c \in OrderCallers : CreateOrderReturn(c)
    \/ Tick

SpecOrders == Init /\ [][NextOrders]_vars

\* a service that starts with any environment and gets its first request
InitBoot ==
    /\ BreakerStart(DefaultMaxRequests)
    /\ LimiterStart(NewRateLimiter(TestRequestsPerSecond, TestBurst))
    /\ CacheStart("orders", "enabled", TRUE)
    /\ KeysStart
    /\ OrdersStart
    /\ \E env \in Environments : BootStart(env)
    /\ TokenIdle
    /\ AuthStart
    /\ RaceStart

NextBoot ==
    \/ MainLoad
    \/ \E dbOk \in BOOLEAN : MainServe(dbOk)
    \/ FirstRequest

SpecBoot == InitBoot /\ [][NextBoot]_vars

\* goroutines that call GetToken and InvalidateToken of one provider, as
\* time passes
InitToken ==
    /\ BreakerStart(DefaultMaxRequests)
    /\ LimiterStart(NewRateLimiter(TestRequestsPerSecond, TestBurst))
    /\ CacheStart("orders", "enabled", TRUE)
    /\ KeysStart
    /\ OrdersStart
    /\ BootIdle
    /\ \E ttl \in TokenTTLs, secret \in {"secret", ""}, threshold \in RenewalThresholds :
          TokenStart(NewCachedTokenProvider(ttl, secret, threshold))
    /\ AuthStart
    /\ RaceStart

NextToken ==
    \/ \E g \in Getters : GetTokenFast(g)
    \/ \E g \in Getters : GetTokenLock(g)
    \/ \E g \in Getters : GetTokenGenerate(g)
    \/ \E g \in Getters : GetTokenUpdate(g)
    \/ InvalidateToken
    \/ TokenTick

SpecToken == InitToken /\ [][NextToken]_vars

\* a service that serves requests to its protected routes
NextAuth ==
    \E cfg \in AuthConfigs, header \in Headers, roles \in RequiredRoles :
       ServeProtected(cfg, header, roles)

SpecAuth == Init /\ [][NextAuth]_vars

\* the order service with its cache: writes that succeed, and a Get that
\* runs in a goroutine of its own
NextCacheRace ==
    \/ CreateEntity(LookupActive, FALSE, TRUE)
    \/ \E id \in EntityIds, data \in DataValues, status \in UpdateStatuses(svc) :
          UpdateEntity(id, data, status, FALSE, TRUE)
    \/ \E id \in EntityIds : DeleteEntity(id, TRUE)
    \/ \E id \in EntityIds : GetEntityCached(id)
    \/ \E dbOk \in BOOLEAN : GetEntityFind(dbOk)
    \/ \E user \in UsersOf(svc) : GetEntityStore(user)

SpecCacheRace == Init /\ [][NextCacheRace]_vars

----------------------------------------------------------------------------
(* Properties of the circuit breaker and the user client *)

\* caller c's call reaches CircuitBreaker.Execute in this step
ExecuteCall(c) == pc[c] = "idle" /\ ExecuteWithContext(c, FALSE)

\* Execute refuses c's call: the operation is not invoked, the breaker is as it was
Refused(c, err) == pc'[c] = "idle" /\ ret' = err /\ breaker'.counts = breaker.counts

\* every Execute call made while the breaker is open and its timeout has not
\* elapsed returns CIRCUIT_OPEN without invoking the operation
OpenRejects ==
    \A c \in Callers :
        (ExecuteCall(c) /\ breaker.state = StateOpen /\ now <= breaker.expiry)
            => (Refused(c, ErrCodeCircuitOpen) /\ breaker'.state = StateOpen)

\* the third of the first three Execute calls returns in this step, the three
\* made one after the other and each failing
ThirdConsecutiveFailure ==
    /\ firstCalls.n = MinRequests - 1
    /\ firstCalls'.n = MinRequests
    /\ firstCalls'.allFailed
    /\ firstCalls'.sequential

\* C1 as stated: on a fresh breaker three consecutive failing Execute calls leave
\* the breaker open, whenever they are made, and an open breaker whose timeout
\* has not elapsed refuses every call with CIRCUIT_OPEN without invoking it
C1_ThreeFailuresOpen_AnyTime ==
    [][(ThirdConsecutiveFailure => breaker'.state = StateOpen) /\ OpenRejects]_vars

\* C1 amended: on a fresh breaker three consecutive failing Execute calls that
\* fall into one counting interval leave the breaker open, and an open breaker
\* whose timeout has not elapsed refuses every call with CIRCUIT_OPEN without
\* invoking the operation
C1_ThreeFailuresOpen ==
    [][/\ (ThirdConsecutiveFailure /\ firstCalls'.oneInterval)
            => breaker'.state = StateOpen
       /\ OpenRejects]_vars

C1_Witness ==
    /\ firstCalls.n = MinRequests + 1 /\ firstCalls.allFailed
    /\ firstCalls.sequential /\ firstCalls.oneInterval
    /\ breaker.state = StateOpen
    /\ ret = ErrCodeCircuitOpen

\* C2 as stated: no state has the breaker closed, every call completed, and the
\* counters of the running interval at 3 or more requests with at least half of
\* them failures
C2_NoClosedStateMeetsTripRule ==
    (/\ breaker.state = StateClosed
     /\ InFlight = {}
     /\ now <= breaker.expiry)
        => ~(/\ breaker.counts.Requests >= MinRequests
             /\ 2 * breaker.counts.TotalFailures >= breaker.counts.Requests)

\* C3: an Execute call made after the open timeout has elapsed finds or makes the
\* breaker half-open and its operation is invoked; until the timeout has
\* elapsed nothing moves the breaker out of open, and the timeout runs from the
\* step that opened the breaker
C3_HalfOpenAfterTimeout ==
    [][/\ \A c \in Callers :
            (ExecuteCall(c) /\ breaker.state = StateOpen /\ now > breaker.expiry)
                => (breaker'.state = StateHalfOpen /\ pc'[c] = "inflight")
       /\ (breaker.state = StateOpen /\ now <= breaker.expiry)
            => (breaker'.state = StateOpen /\ breaker'.expiry = breaker.expiry)
       /\ (breaker.state = StateOpen /\ breaker'.state # StateOpen)
            => breaker'.state = StateHalfOpen
       /\ (breaker.state # StateOpen /\ breaker'.state = StateOpen)
            => breaker'.expiry = now + Timeout]_vars

C3_Witness ==
    /\ breaker.state = StateHalfOpen
    /\ trials.invoked = 1
    /\ \E c \in Callers : pc[c] = "inflight" /\ gen[c] = breaker.generation

\* a trial call returns: c's call returns while the breaker is half-open
TrialReturns(c) ==
    /\ GetUserReturn(c)
    /\ breaker.state = StateHalfOpen

\* C4: a failing trial call of the half-open period returns the breaker to open
\* at once, the open timeout starts again at that moment, and calls are refused
\* until it has elapsed
C4_HalfOpenFailureReopens ==
    [][/\ \A c \in Callers :
            (TrialReturns(c) /\ ret' # ErrNil)
                => /\ breaker'.state = StateOpen
                   /\ breaker'.expiry = now + Timeout
       /\ \A c \in Callers :
            (ExecuteCall(c) /\ breaker.state = StateOpen /\ now <= breaker.expiry)
                => pc'[c] = "idle"]_vars

C4_Witness ==
    /\ breaker.state = StateOpen
    /\ trials.failed = 1
    /\ breaker.expiry = now
    /\ ret = ErrCodeCircuitOpen

\* C5 as stated: a successful trial call closes the breaker and resets the
\* counters, whatever MaxRequests is
C5_HalfOpenSuccessCloses_Always ==
    [][\A c \in Callers :
         (TrialReturns(c) /\ ret' = ErrNil)
             => (breaker'.state = StateClosed /\ breaker'.counts = ZeroCounts)]_vars

\* C5 amended: a successful trial call closes the breaker and resets the counters
\* when it is the MaxRequests-th success of the half-open period, and leaves the
\* breaker half-open, the success counted, when it is an earlier one
C5_HalfOpenSuccessCloses ==
    [][\A c \in Callers :
         (TrialReturns(c) /\ ret' = ErrNil)
             => IF trials'.succeeded >= breaker.maxRequests
                THEN /\ breaker'.state = StateClosed
                     /\ breaker'.counts = ZeroCounts
                ELSE /\ breaker'.state = StateHalfOpen
                     /\ breaker'.counts.TotalSuccesses = trials'.succeeded
                     /\ breaker'.counts.Requests = breaker.counts.Requests]_vars

C5_Witness ==
    /\ breaker.state = StateClosed
    /\ breaker.maxRequests = DefaultMaxRequests
    /\ trials.succeeded = DefaultMaxRequests
    /\ breaker.counts = ZeroCounts
    /\ ret = ErrNil

\* C6: in a half-open period at most MaxRequests operations are invoked, those in
\* flight included; a further call is refused without invoking the operation;
\* and the breaker closes only when MaxRequests trials have succeeded and none
\* has failed
C6_HalfOpenTrialLimit ==
    [][/\ breaker'.state = StateHalfOpen => trials'.invoked <= breaker'.maxRequests
       /\ \A c \in Callers :
            (/\ ExecuteCall(c)
             /\ breaker.state = StateHalfOpen
             /\ trials.invoked >= breaker.maxRequests)
                => (Refused(c, ErrTooManyRequests) /\ breaker'.state = StateHalfOpen)
       /\ (breaker.state = StateHalfOpen /\ breaker'.state = StateClosed)
            => /\ trials'.succeeded = breaker.maxRequests
               /\ trials'.invoked = breaker.maxRequests
               /\ trials'.failed = 0]_vars

C6_Witness ==
    /\ breaker.state = StateHalfOpen
    /\ breaker.maxRequests = DefaultMaxRequests
    /\ trials.invoked = DefaultMaxRequests
    /\ ret = ErrTooManyRequests
\* the breaker takes the result of this step as a failure: it counts it, or it
\* opens on it
FailureCounted ==
    \/ breaker'.counts.TotalFailures = breaker.counts.TotalFailures + 1
    \/ breaker.state # StateOpen /\ breaker'.state = StateOpen

\* the breaker is in the counting generation in which c's call was admitted
SameGeneration(c) == gen[c] = currentState(breaker, now).generation

\* the wrapped call of c returns an error in this step
ReturnsError(c) ==
    \E resp \in Responses : Return(c, resp) /\ doGetRequest(resp) # ErrNil

\* the third of the first three GetUser calls returns in this step, the three
\* made one after the other and each answered 404
ThirdNotFound ==
    /\ firstCalls.n = MinRequests - 1
    /\ firstCalls'.n = MinRequests
    /\ firstCalls'.allNotFound
    /\ firstCalls'.sequential

\* c makes the call that follows three consecutive GetUser calls answered 404
CallAfterThreeNotFound(c) ==
    /\ ExecuteCall(c)
    /\ firstCalls.n = MinRequests
    /\ firstCalls.allNotFound
    /\ firstCalls.sequential

\* C7 as stated: every error of the wrapped call counts as a failure of the
\* breaker, and three consecutive GetUser calls answered 404 on a fresh breaker
\* open it, so that the next GetUser is refused with CIRCUIT_OPEN
C7_EveryErrorCounts_AnyTime ==
    [][/\ \A c \in Callers : ReturnsError(c) => FailureCounted
       /\ ThirdNotFound => breaker'.state = StateOpen
       /\ \A c \in Callers :
            CallAfterThreeNotFound(c) => Refused(c, ErrCodeCircuitOpen)]_vars

\* C7 amended: every error of the wrapped call, a 404 and a non-success envelope
\* included, counts as a failure of the breaker unless the breaker began a new
\* counting generation while the call was in flight; three consecutive GetUser
\* calls answered 404 within one counting interval open a fresh breaker, and the
\* next GetUser made before the open timeout has elapsed is refused with
\* CIRCUIT_OPEN without a network call
C7_EveryErrorCounts ==
    [][/\ \A c \in Callers : (ReturnsError(c) /\ SameGeneration(c)) => FailureCounted
       /\ (ThirdNotFound /\ firstCalls'.oneInterval) => breaker'.state = StateOpen
       /\ \A c \in Callers :
            (/\ CallAfterThreeNotFound(c)
             /\ firstCalls.oneInterval
             /\ breaker.state = StateOpen
             /\ now <= breaker.expiry)
                => Refused(c, ErrCodeCircuitOpen)]_vars

C7_Witness ==
    /\ firstCalls.n = MinRequests + 1
    /\ firstCalls.allNotFound
    /\ firstCalls.sequential /\ firstCalls.oneInterval
    /\ breaker.state = StateOpen
    /\ ret = ErrCodeCircuitOpen
    /\ InFlight = {}

\* c calls ExecuteWithContext with a context that is already done
CancelledCall(c) == pc[c] = "idle" /\ ExecuteWithContext(c, TRUE)

\* C8 as stated: every ExecuteWithContext call whose context is cancelled, before
\* the call or while the operation is in flight, is counted as a failure
C8_CancelledCountsAsFailure_Always ==
    [][/\ \A c \in Callers : CancelledCall(c) => FailureCounted
       /\ \A c \in Callers : Return(c, "context canceled") => FailureCounted]_vars

\* C8 amended: a call whose context is cancelled while the operation is in flight
\* is counted as a failure, unless the breaker began a new counting generation
\* meanwhile; a call whose context is already cancelled returns the context's
\* error and leaves the breaker as it was, the operation not invoked
C8_CancelledCountsAsFailure ==
    [][/\ \A c \in Callers :
            (Return(c, "context canceled") /\ SameGeneration(c)) => FailureCounted
       /\ \A c \in Callers :
            CancelledCall(c)
                => /\ breaker' = breaker
                   /\ pc'[c] = "idle"
                   /\ ret' = ErrContextCanceled]_vars

C8_Witness ==
    /\ ret = ErrContextCanceled
    /\ breaker.state = StateClosed
    /\ breaker.counts.Requests = 2
    /\ breaker.counts.TotalFailures = 2

\* the breaker is consulted in this step
Consulted ==
    \/ State
    \/ \E c \in Callers : ExecuteCall(c)
    \/ \E c \in Callers : GetUserReturn(c)

\* counters that hold nothing but the request of this step
FreshCounts == breaker'.counts \in {ZeroCounts, onRequest(ZeroCounts)}

\* C9: the counters start from zero at every change of state and, in the closed
\* state, at the first step that consults the breaker after the counting
\* interval has ended; a step adds at most its own request and result to them,
\* and the breaker opens only on the counters of the running interval
C9_CountersReset ==
    [][/\ breaker'.state # breaker.state => FreshCounts
       /\ (/\ breaker.state = StateClosed
           /\ breaker.expiry < now
           /\ Consulted)
            => (/\ FreshCounts
                /\ breaker'.state = StateClosed
                /\ breaker'.expiry = now + Interval)
       /\ (breaker.state = StateClosed /\ breaker'.state = StateOpen)
            => (/\ now <= breaker.expiry
                /\ breaker.counts.Requests >= MinRequests
                /\ 2 * (breaker.counts.TotalFailures + 1) >= breaker.counts.Requests)
       /\ breaker'.counts.Requests <= breaker.counts.Requests + 1
       /\ breaker'.counts.TotalFailures <= breaker.counts.TotalFailures + 1
       /\ breaker'.counts.TotalSuccesses <= breaker.counts.TotalSuccesses + 1]_vars

C9_Witness ==
    /\ breaker.state = StateClosed
    /\ breaker.counts = ZeroCounts
    /\ firstCalls.n = MinRequests - 1
    /\ firstCalls.allFailed
    /\ ~firstCalls.oneInterval

----------------------------------------------------------------------------
(* Properties of the rate limiter *)

\* the limiter of TestRateLimiter: 2 tokens a second, burst 2
TestLimiter == rl = NewRateLimiter(TestRequestsPerSecond, TestBurst)

\* the requests i..j of key k were decided in one tick: they are immediate
Immediate(k, i, j) ==
    /\ Len(log[k]) >= j
    /\ \A n \in i..j : log[k][n].at = log[k][i].at

\* request i of key k was decided
Decided(k, i) == Len(log[k]) >= i

\* key k's first three requests were immediate, and its fourth came w ticks
\* after them
WaitedTicks(k, w) ==
    /\ Immediate(k, 1, 3)
    /\ Decided(k, 4)
    /\ log[k][4].at - log[k][3].at = w

\* the first three immediate requests of a key are decided allow, allow, reject
FirstThree(k) ==
    Immediate(k, 1, 3) =>
        /\ log[k][1].allowed
        /\ log[k][2].allowed
        /\ ~log[k][3].allowed

\* this step decides a request and rejects it
Rejects(p) ==
    /\ \E s \in HandlerStatuses : Middleware(p, s)
    /\ ~reserveN(heap[req[p].limiter], tick).ok

\* the rejected request is answered 429 RATE_LIMIT_EXCEEDED, the chain is
\* aborted and the handler is not invoked
RejectedAnswer ==
    \A p \in RequestProcs :
        Rejects(p) =>
            /\ response'.status = StatusTooManyRequests
            /\ response'.code = ErrCodeRateLimit
            /\ response'.aborted
            /\ ~response'.handler

\* after a wait of w ticks exactly one more immediate request of key k is
\* admitted: the fourth is, and a fifth in the same tick is not
ExactlyOneMore(k) ==
    /\ log[k][4].allowed
    /\ Immediate(k, 4, 5) => ~log[k][5].allowed

\* two more immediate requests are admitted, and a third is not
ExactlyTwoMore(k) ==
    /\ log[k][4].allowed
    /\ Immediate(k, 4, 5) => log[k][5].allowed
    /\ Immediate(k, 4, 6) => ~log[k][6].allowed

\* C10 as stated: with rate 2 and burst 2, three immediate sequential requests
\* of a key are decided allow, allow, reject; the rejected one is answered
\* 429 RATE_LIMIT_EXCEEDED without the handler; after a wait of at least half
\* a second, however long, exactly one more immediate request is admitted.
C10_BurstThenOneMore_AnyWait ==
    [][TestLimiter' =>
          /\ \A k \in Keys : FirstThree(k)'
          /\ RejectedAnswer
          /\ \A k \in Keys : \A w \in 0..MaxTick :
                (WaitedTicks(k, w)' /\ 2 * w >= TicksPerSecond)
                    => ExactlyOneMore(k)']_vars

\* C10, amended: with rate 2 and burst 2, three immediate sequential requests
\* of a key are decided allow, allow, reject; the rejected one is answered
\* 429 RATE_LIMIT_EXCEEDED, the chain is aborted and the handler is not
\* invoked; after a wait of at least half a second and less than a second
\* exactly one more immediate request of the key is admitted, after a wait of
\* a second or more exactly two are (the bucket is full again), and after a
\* wait of less than half a second none is.
C10_BurstThenOneMore ==
    [][TestLimiter' =>
          /\ \A k \in Keys : FirstThree(k)'
          /\ RejectedAnswer
          /\ \A k \in Keys : \A w \in 0..MaxTick :
                WaitedTicks(k, w)' =>
                    CASE 2 * w < TicksPerSecond -> ~log'[k][4].allowed
                      [] w < TicksPerSecond -> ExactlyOneMore(k)'
                      [] OTHER -> ExactlyTwoMore(k)']_vars

\* a key's three immediate requests were decided allow, allow, reject; after
\* a wait of half a second to a second a fourth was admitted and a fifth,
\* immediately after it, was answered 429 without the handler
C10_Witness ==
    /\ TestLimiter
    /\ \E k \in Keys : \E w \in 0..MaxTick :
          /\ WaitedTicks(k, w)
          /\ 2 * w >= TicksPerSecond
          /\ w < TicksPerSecond
          /\ ~log[k][3].allowed
          /\ log[k][4].allowed
          /\ Immediate(k, 4, 5)
          /\ ~log[k][5].allowed
          /\ Len(log[k]) = 5
    /\ response.status = StatusTooManyRequests
    /\ ~response.handler

----------------------------------------------------------------------------
(* Independence of the keys *)

RECURSIVE Replay(_, _, _)
\* the decisions of entries i.. of a key's log are those of one bucket lim
\* that serves these entries alone
Replay(entries, lim, i) ==
    IF i > Len(entries) THEN TRUE
    ELSE \E r \in {reserveN(lim, entries[i].at)} :
            /\ entries[i].allowed = r.ok
            /\ Replay(entries, r.lim, i + 1)

\* the decisions of key k are those it gets when it is the only key: a
\* bucket of its own, full at its first request
DecidedAlone(k) ==
    \/ log[k] = <<>>
    \/ Replay(log[k], NewLimiter(rl.limit, rl.burst, log[k][1].at), 1)

\* the limiter object of key k in the map, if there is one
Bucket(k) == IF limiters[k] = NoLimiter THEN NoLimiter ELSE heap[limiters[k]]

\* goroutine p, serving a request of key k, takes a step
RequestStep(p, k) ==
    \/ getLimiterLoad(p, k)
    \/ req[p].clientIP = k /\ getLimiterStore(p)
    \/ req[p].clientIP = k /\ \E s \in HandlerStatuses : Middleware(p, s)

\* C11: the admission decisions of a key are independent of the other keys:
\* every decision of a key is the one its own bucket gives for its own
\* requests alone, and a step of a request of another key leaves the key's
\* entry in the map, its bucket's tokens and its decisions as they are.
C11_KeysIndependent ==
    [][\A k \in Keys :
          /\ log'[k] # log[k] => DecidedAlone(k)'
          /\ \A p \in RequestProcs : \A other \in Keys \ {k} :
                RequestStep(p, other) =>
                    /\ limiters'[k] = limiters[k]
                    /\ Bucket(k)' = Bucket(k)
                    /\ log'[k] = log[k]]_vars

\* key A's third immediate request was rejected, and in the same tick the
\* first request of key B was allowed
C11_Witness ==
    /\ Immediate("A", 1, 3)
    /\ ~log["A"][3].allowed
    /\ Decided("B", 1)
    /\ log["B"][1].allowed
    /\ log["B"][1].at = log["A"][3].at
    /\ limiters["A"] # limiters["B"]

----------------------------------------------------------------------------
(* Concurrent requests of one key *)

\* the requests of key k that were admitted in tick t
AdmittedAt(k, t) == {i \in DOMAIN log[k] : log[k][i].at = t /\ log[k][i].allowed}

\* the goroutines that hold a limiter for a request of key k
Holding(k) == {p \in RequestProcs : req[p].pc = "Allow" /\ req[p].clientIP = k}

\* C12: under every interleaving of concurrent requests of a key, also of
\* several first requests of an unseen key, all of them draw from one bucket:
\* every request of the key holds the limiter that the map has for the key,
\* and the number of requests of the key admitted in one tick (no time
\* elapsed) is at most the burst.
C12_OneBucketPerKey ==
    \A k \in Keys :
        /\ \A p \in Holding(k) : req[p].limiter = limiters[k]
        /\ \A t \in 0..MaxTick : Cardinality(AdmittedAt(k, t)) <= rl.burst

----------------------------------------------------------------------------
(* CleanupStaleEntries *)

\* the tokens that the bucket of key k has now
TokensOf(k) == Tokens(heap[limiters[k]], tick)

\* C13: CleanupStaleEntries, run with no request served meanwhile, removes
\* from the map every bucket whose tokens now equal the burst and no bucket
\* whose tokens are below it; the buckets themselves, and with them those of
\* the other keys, are left as they are, and no key is added.
C13_CleanupRemovesFullBuckets ==
    [][CleanupStaleEntries =>
          /\ \A k \in Stored :
                /\ TokensOf(k) = rl.burst * OneToken => limiters'[k] = NoLimiter
                /\ TokensOf(k) < rl.burst * OneToken => limiters'[k] = limiters[k]
          /\ \A k \in Keys \ Stored : limiters'[k] = NoLimiter
          /\ heap' = heap
          /\ log' = log]_vars

\* key A, which was served, has lost its bucket to the cleanup, while key B,
\* served before A's last request, still has its first bucket, below capacity
C13_Witness ==
    /\ log["A"] # <<>>
    /\ log["B"] # <<>>
    /\ log["B"][1].at <= log["A"][Len(log["A"])].at
    /\ limiters["A"] = NoLimiter
    /\ limiters["B"] # NoLimiter
    /\ Len(heap) = 2
    /\ TokensOf("B") < rl.burst * OneToken

----------------------------------------------------------------------------
(* Properties of the cache-aside layer *)

\* the cache is enabled and its backend answers
Healthy == Usable /\ redisUp

\* this step is a Create, a Get, an Update, a Delete of the service
CreateStep ==
    \E lookup \in LookupsOf(svc), conflict \in ConflictsOf(svc), dbOk \in BOOLEAN :
       CreateEntity(lookup, conflict, dbOk)

GetStep(id) ==
    \E user \in UsersOf(svc), dbOk \in BOOLEAN : GetEntity(id, user, dbOk)

UpdateStep(id) ==
    \E data \in DataValues, status \in UpdateStatuses(svc),
       conflict \in ConflictsOf(svc), dbOk \in BOOLEAN :
       UpdateEntity(id, data, status, conflict, dbOk)

DeleteStep(id) == \E dbOk \in BOOLEAN : DeleteEntity(id, dbOk)

\* the entity of id was deleted
Deleted(id) == id \in DOMAIN db /\ db[id].Status = StatusDeleted

\* C14: with the cache enabled and healthy, (1) a create, or a Get that
\* missed and found the row, leaves under the entity key an entry that reads
\* back as exactly the payload the operation returned; (2) a Get that finds an
\* entry under the entity key returns exactly what the entry reads back as,
\* without asking the repository and without changing anything; (3) a
\* successful Delete leaves no entry under the entity key, and a Get of a
\* deleted entity that finds no entry asks the repository and reports
\* NOT_FOUND (INTERNAL_ERROR when the database fails).
C14_RoundTripAndDeleteMiss ==
    [][Healthy =>
         \A id \in EntityIds :
            /\ (CreateStep \/ GetStep(id)) /\ last'.id = id /\ last'.err = ErrNil
                  /\ last'.source
               => /\ Live(EntityKey(svc, id))'
                  /\ cacheGetEntity(id)' = last'.value
            /\ GetStep(id) /\ Live(EntityKey(svc, id))
               => /\ last' = Result("get", id, ErrNil,
                                    <<UnmarshalEntity(svc, store[EntityKey(svc, id)].value)>>,
                                    FALSE, <<>>)
                  /\ store' = store
                  /\ db' = db
            /\ DeleteStep(id) /\ last'.err = ErrNil
               => /\ Deleted(id)'
                  /\ EntityKey(svc, id) \notin DOMAIN store'
            /\ GetStep(id) /\ Deleted(id) /\ ~Live(EntityKey(svc, id))
               => /\ last'.source
                  /\ last'.err \in {ErrCodeNotFound, ErrCodeInternal}
                  /\ last'.value = <<>>
                  /\ store' = store]_vars

\* the order service, its cache healthy, has answered a Get of order 1 from
\* the entry a write left, with the user data, and it has deleted order 2,
\* which has no entry
C14_Witness ==
    /\ svc = "orders"
    /\ Healthy
    /\ Deleted(2)
    /\ ~Live(EntityKey(svc, 2))
    /\ last = Result("get", 1, ErrNil, <<OrderWithUser(db[1], <<ActiveUser>>)>>,
                     FALSE, <<>>)

\* the row in a payload that was read from the cache
EntityRow(payload) == IF svc = "orders" THEN payload.Order ELSE payload

\* the entry under the entity key of id reads back as the row the table holds
EntryIsRow(id) ==
    /\ cacheGetEntity(id) # <<>>
    /\ EntityRow(cacheGetEntity(id)[1]) = db[id]

\* this step is a write to the entity of id that succeeded
CreatedOk(id) == CreateStep /\ last'.err = ErrNil /\ last'.id = id
UpdatedOk(id) == UpdateStep(id) /\ last'.err = ErrNil
DeletedOk(id) == DeleteStep(id) /\ last'.err = ErrNil

\* C15 as stated: with the cache healthy, after every successful Create or
\* Update, in every service, the entry under the entity key holds the row
\* that was written, and after every successful Delete it is absent.
C15_EveryWriteRefreshes ==
    [][Healthy =>
         \A id \in EntityIds :
            /\ CreatedOk(id) \/ UpdatedOk(id) => EntryIsRow(id)'
            /\ DeletedOk(id) => EntityKey(svc, id) \notin DOMAIN store']_vars

\* C15, amended: a successful write touches no entry but the one under the
\* entity's key.  With the cache healthy, after a Create that entry reads
\* back as the payload returned, made of the row written; after an Update it
\* reads back as the row written in the repository and audit-log services
\* and is absent in the order service; after a Delete it is absent.  With the
\* cache not usable or its backend failing, the write leaves every entry as
\* it was.
C15_WritesRefreshOrInvalidate ==
    [][\A id \in EntityIds :
          CreatedOk(id) \/ UpdatedOk(id) \/ DeletedOk(id)
          => /\ \A k \in DOMAIN store \ {EntityKey(svc, id)} :
                   k \in DOMAIN store' /\ store'[k] = store[k]
             /\ DOMAIN store' \subseteq DOMAIN store \cup {EntityKey(svc, id)}
             /\ ~Healthy => store' = store
             /\ Healthy /\ CreatedOk(id)
                => /\ cacheGetEntity(id)' = last'.value
                   /\ EntryIsRow(id)'
             /\ Healthy /\ UpdatedOk(id)
                => /\ last'.value = <<db'[id]>>
                   /\ IF svc = "orders"
                      THEN EntityKey(svc, id) \notin DOMAIN store'
                      ELSE cacheGetEntity(id)' = <<db'[id]>>
             /\ Healthy /\ DeletedOk(id)
                => EntityKey(svc, id) \notin DOMAIN store']_vars

\* the order service, its cache healthy, has updated order 1, which has no
\* entry now, while order 2 has the entry its creation left
C15_Witness ==
    /\ svc = "orders"
    /\ Healthy
    /\ Len(db) = 2
    /\ last = Result("update", 1, ErrNil, <<db[1]>>, TRUE, <<>>)
    /\ db[1].Data = 1
    /\ EntityKey(svc, 1) \notin DOMAIN store
    /\ EntryIsRow(2)

\* the list queries that are made, as ListOrders (ListRepositories,
\* ListAuditLogs) sees them after ApplyDefaults, and their cache keys
ListQueries == {ApplyDefaults(ListQuery(svc, status)) : status \in ListStatuses}

ListKeys == {ListCacheKey(svc, query) : query \in ListQueries}

ListStep == \E status \in ListStatuses, dbOk \in BOOLEAN : ListEntities(status, dbOk)

\* this step is a Create, Update or Delete, successful or not
WriteStep == CreateStep \/ \E id \in EntityIds : UpdateStep(id) \/ DeleteStep(id)

\* how long ago, in seconds, the entry under key was stored
AgeSeconds(key) == (ctime - store[key].at) * CacheSecondsPerTick

\* C16: (1) no Create, Update or Delete adds, changes or removes an entry
\* under a list key; (2) every entry under a list key was stored to expire
\* ListTTLSeconds = 60 seconds later, and is not older than that; (3) a list
\* read answered from the cache returns the stored result as it is, which
\* was cached at most 60 seconds earlier, whatever was written since.
C16_ListEntriesOnlyExpire ==
    [][/\ WriteStep
          => \A k \in ListKeys :
                /\ k \in DOMAIN store' <=> k \in DOMAIN store
                /\ k \in DOMAIN store => store'[k] = store[k]
       /\ \A k \in ListKeys \cap DOMAIN store' :
             /\ store'[k].expires # NoExpiry
             /\ (store'[k].expires - store'[k].at) * CacheSecondsPerTick
                   <= ListTTLSeconds
             /\ ListTTLSeconds
                   < (store'[k].expires - store'[k].at + 1) * CacheSecondsPerTick
             /\ AgeSeconds(k)' <= ListTTLSeconds
       /\ ListStep /\ ~last'.source
          => \E k \in ListKeys \cap DOMAIN store :
                /\ k = ListCacheKey(svc, last'.query[1])
                /\ last'.err = ErrNil
                /\ last'.value = <<UnmarshalList(store[k].value)>>
                /\ AgeSeconds(k) <= ListTTLSeconds
                /\ store' = store]_vars

\* a list read was answered from an entry cached a tick earlier, and the
\* result omits the second entity and shows the first as it was before it was
\* written again: the repository would answer something else
C16_Witness ==
    /\ last.op = "list"
    /\ ~last.source
    /\ last.err = ErrNil
    /\ Len(db) = 2
    /\ ~Deleted(1)
    /\ ~Deleted(2)
    /\ Len(last.value[1].rows) = 1
    /\ last.value[1].rows[1].ID = 1
    /\ last.value[1].rows[1].Data # db[1].Data
    /\ \E k \in ListKeys \cap DOMAIN store : AgeSeconds(k) > 0

\* the cache is nil or disabled, or its backend fails every operation
Degraded == cacheCfg \in {"nil", "disabled"} \/ ~redisUp

\* The services without a cache layer: what each operation returns (err,
\* value) and the table it leaves (db), from the repository and the user
\* lookup alone.
NoCacheCreate(lookup, conflict, dbOk) ==
    LET row == [ID |-> Len(db) + 1, Data |-> 0, Status |-> StatusActive]
        err == CASE svc = "orders" /\ CreateOrderRefusal(lookup.err, lookup.user) # ErrNil
                      -> CreateOrderRefusal(lookup.err, lookup.user)
                 [] ~dbOk -> ErrCodeInternal
                 [] svc = "repositories" /\ conflict -> ErrCodeConflict
                 [] OTHER -> ErrNil
    IN
    IF err # ErrNil THEN [err |-> err, value |-> <<>>, db |-> db]
    ELSE [err |-> ErrNil, value |-> <<Payload(row, lookup.user)>>,
          db |-> Append(db, row)]

NoCacheUpdate(id, data, status, conflict, dbOk) ==
    LET err == CASE ~dbOk -> ErrCodeInternal
                 [] FindByID(id) = <<>> -> ErrCodeNotFound
                 [] svc = "repositories" /\ conflict -> ErrCodeConflict
                 [] OTHER -> ErrNil
        row == [db[id] EXCEPT !.Data = data,
                              !.Status = IF status # <<>> THEN status[1] ELSE @]
    IN
    IF err # ErrNil THEN [err |-> err, value |-> <<>>, db |-> db]
    ELSE [err |-> ErrNil, value |-> <<row>>, db |-> [db EXCEPT ![id] = row]]

NoCacheDelete(id, dbOk) ==
    LET err == CASE ~dbOk -> ErrCodeInternal
                 [] FindByID(id) = <<>> -> ErrCodeNotFound
                 [] OTHER -> ErrNil
    IN
    IF err # ErrNil THEN [err |-> err, value |-> <<>>, db |-> db]
    ELSE [err |-> ErrNil, value |-> <<>>,
          db |-> [db EXCEPT ![id].Status = StatusDeleted]]

\* the operation of this step returned what r says and left r's table
Returned(r) == last'.err = r.err /\ last'.value = r.value /\ db' = r.db

\* C18: while the cache is nil, disabled, or fails every operation, each
\* Create, Get, Update, Delete and List returns the error and the value, and
\* leaves the table, that the service without a cache layer would; every Get
\* and List asks the repository; no entry is stored.
C18_DegradedIsPassThrough ==
    [][Degraded =>
         /\ store' = store
         /\ \A lookup \in LookupsOf(svc), conflict \in ConflictsOf(svc), dbOk \in BOOLEAN :
               CreateEntity(lookup, conflict, dbOk)
               => Returned(NoCacheCreate(lookup, conflict, dbOk))
         /\ \A id \in EntityIds, dbOk \in BOOLEAN :
               /\ \A user \in UsersOf(svc) :
                     GetEntity(id, user, dbOk)
                     => /\ last'.source
                        /\ Returned(getFromSource(id, user, dbOk) @@ [db |-> db])
               /\ \A data \in DataValues, status \in UpdateStatuses(svc),
                     conflict \in ConflictsOf(svc) :
                     UpdateEntity(id, data, status, conflict, dbOk)
                     => Returned(NoCacheUpdate(id, data, status, conflict, dbOk))
               /\ DeleteEntity(id, dbOk) => Returned(NoCacheDelete(id, dbOk))
         /\ \A status \in ListStatuses, dbOk \in BOOLEAN :
               ListEntities(status, dbOk)
               => /\ last'.source
                  /\ Returned(listFromSource(ApplyDefaults(ListQuery(svc, status)), dbOk)
                                 @@ [db |-> db])]_vars

\* a service whose cache is enabled while the backend fails has created two
\* entities, deleted the second, and then answered a Get of the first from
\* the repository; nothing is cached
C18_Witness ==
    /\ cacheCfg = "enabled"
    /\ ~redisUp
    /\ Deleted(2)
    /\ last.op = "get"
    /\ last.source
    /\ last.value = <<Payload(db[1], <<>>)>>
    /\ DOMAIN store = {}

\* C17 as stated: the two keys are equal when the two queries have the same
\* fields after the defaults are applied, and differ when the queries differ
\* in a filter or pagination field, in each of the three services.
C17_ListKeyInjective ==
    listKeys # <<>>
    => /\ ApplyDefaults(queries[1]) = ApplyDefaults(queries[2])
          => listKeys[1] = listKeys[2]
       /\ ApplyDefaults(queries[1]) # ApplyDefaults(queries[2])
          => listKeys[1] # listKeys[2]

----------------------------------------------------------------------------
(* Properties of CreateOrder *)

\* the answer to an order that was created without user data
DegradedSuccess(asked) ==
    [status |-> StatusCreated, code |-> ErrNil, user |-> <<>>, persisted |-> TRUE,
     asked |-> asked]

\* the breaker is open and its timeout has not passed (currentState half-opens
\* it once expiry.Before(now))
CircuitOpen == breaker.state = StateOpen /\ ~(breaker.expiry < now)

\* how doGetRequest ends when the user service does not answer, or answers
\* that it is unavailable
Unavailable == {"transport error", "503"}

\* C19 as stated: whenever the user lookup of a create-order request fails
\* because the breaker is open, or because the user service does not answer
\* or answers 503, and the database works, CreateOrder persists the order and
\* returns success without user data.
C19_DegradesWhenUnavailable ==
    [][\A c \in OrderCallers :
          /\ CreateOrderCall(c, FALSE, TRUE) /\ CircuitOpen
             => created' = DegradedSuccess(FALSE)
          /\ \A resp \in Unavailable, user \in LookupUsers :
                CreateOrderAnswer(c, resp, user, TRUE)
                => created' = DegradedSuccess(TRUE)]_vars

----------------------------------------------------------------------------
(* Properties of the start of a service *)

\* value is set and is no number
Unparsable(value) == value # <<>> /\ Atoi(value).err

\* the environment holds a configuration error: a value that is no number,
\* a rate limit that is not positive, or a negative interval, timeout or TTL
ConfigurationError(env) ==
    \/ \E f \in {"rateLimit", "interval", "timeout", "ttl"} : Unparsable(env[f])
    \/ env.rateLimit # <<>> /\ Atoi(env.rateLimit).value <= 0
    \/ \E f \in {"interval", "timeout", "ttl"} :
          env[f] # <<>> /\ Atoi(env[f]).value < 0

\* C21 as stated: a service whose environment holds a configuration error
\* (a zero rate limit, a value that does not parse) never reaches the state
\* in which it serves traffic.
C21_ConfigErrorIsFatal ==
    boot.phase = "serving" => ~ConfigurationError(boot.env)

----------------------------------------------------------------------------
(* Properties of the CachedTokenProvider *)

\* the calls that ran together generated at most one token and those that
\* have returned returned the same token
OneTokenForAll ==
    /\ tokenLog.cohort.generated <= 1
    /\ \A g, h \in DOMAIN tokenLog.cohort.outs :
          tokenLog.cohort.outs[g] = tokenLog.cohort.outs[h]

\* C22 as stated: GetToken calls that run at the same time on a provider
\* without a valid token generate at most one token, and all return it.
C22_ConcurrentCallsShareOneToken == OneTokenForAll

\* C22, amended: GetToken calls that run at the same time on a provider
\* without a valid token generate at most one token, and all return it,
\* provided that TokenTTL is longer than renewalThreshold, that
\* InvalidateToken is not called while they run, and that the token does not
\* reach its renewal time while they run.
C22_ConcurrentCallsShareOneFreshToken ==
    /\ provider.TokenTTL > provider.renewalThreshold
    /\ tokenLog.cohort.clean
    /\ tokenLog.cohort.intime
    => OneTokenForAll

\* two calls ran together, one generated the token and both returned it
C22_Witness ==
    /\ provider.TokenTTL > provider.renewalThreshold
    /\ tokenLog.cohort.clean
    /\ tokenLog.cohort.intime
    /\ tokenLog.cohort.members = Getters
    /\ DOMAIN tokenLog.cohort.outs = Getters
    /\ tokenLog.cohort.generated = 1
    /\ \A g \in Getters : getters[g].pc = "idle" /\ getters[g].token = provider.currentToken
    /\ provider.currentToken # <<>>

\* a token is cached and the clock is before expiresAt minus renewalThreshold
BeforeRenewal ==
    /\ provider.currentToken # <<>>
    /\ provider.clock < provider.expiresAt - provider.renewalThreshold

\* C23: a GetToken call whose check is made before expiresAt minus
\* renewalThreshold returns the cached token and changes nothing; a call
\* whose checks are made at or after that time goes on to generate a token,
\* caches it with expiresAt = now + TokenTTL and returns it.
C23_CachedUntilRenewal ==
    [][\A g \in Getters :
          /\ (GetTokenFast(g) \/ GetTokenLock(g)) /\ BeforeRenewal
             => /\ getters'[g] = Returned_(provider.currentToken, FALSE)
                /\ provider' = provider
                /\ tokenLog'.generated = tokenLog.generated
          /\ GetTokenFast(g) /\ ~BeforeRenewal => getters'[g].pc = "lock"
          /\ GetTokenLock(g) /\ ~BeforeRenewal
             => getters'[g].pc = "generate" /\ provider'.mu = g
          /\ GetTokenGenerate(g) /\ provider.Secret # ""
             => /\ tokenLog'.generated = tokenLog.generated + 1
                /\ getters'[g].pc = "update"
                /\ getters'[g].token = <<tokenLog'.generated>>
          /\ GetTokenUpdate(g)
             => /\ provider'.currentToken = getters[g].token
                /\ provider'.currentToken # provider.currentToken
                /\ provider'.expiresAt = provider.clock + provider.TokenTTL
                /\ getters'[g] = Returned_(provider'.currentToken, FALSE)]_vars

\* the first token reached its renewal time, and the call made then got a
\* second token, which is cached with expiresAt = now + TokenTTL
C23_Witness ==
    /\ tokenLog.stale = <<>>
    /\ provider.TokenTTL > provider.renewalThreshold
    /\ provider.currentToken = <<2>>
    /\ provider.expiresAt = provider.clock + provider.TokenTTL
    /\ \E g \in Getters : getters[g] = Returned_(<<2>>, FALSE)

\* the call of g returns with this step
GetTokenReturns(g) == getters[g].pc # "idle" /\ getters'[g].pc = "idle"

\* C24: InvalidateToken clears the cached token and the expiry.  A GetToken
\* call that finds the cleared cache goes on to generate a token, and once a
\* token was invalidated no call returns it again, however long it would
\* have been valid.
C24_InvalidateForcesNewToken ==
    [][/\ InvalidateToken
          => provider'.currentToken = <<>> /\ provider'.expiresAt = ZeroTime
       /\ \A g \in Getters :
             /\ GetTokenFast(g) /\ provider.currentToken = <<>>
                => getters'[g].pc = "lock"
             /\ GetTokenLock(g) /\ provider.currentToken = <<>>
                => getters'[g].pc = "generate"
             /\ GetTokenGenerate(g) /\ tokenLog.stale # <<>>
                => /\ tokenLog'.generated = tokenLog.generated + 1
                   /\ getters'[g].token # tokenLog.stale
             /\ (GetTokenFast(g) \/ GetTokenReturns(g)) /\ tokenLog.stale # <<>>
                /\ getters'[g].pc = "idle"
                => getters'[g].token # tokenLog.stale /\ ~getters'[g].err]_vars

\* a token that was still valid was invalidated, and the call made since
\* returned a new token, which is cached
C24_Witness ==
    /\ tokenLog.stale # <<>>
    /\ tokenLog.staleValid
    /\ provider.currentToken # <<>>
    /\ provider.currentToken # tokenLog.stale
    /\ \E g \in Getters : getters[g] = Returned_(provider.currentToken, FALSE)

----------------------------------------------------------------------------
(* Properties of the protected routes *)

\* a request was served
ServedProtected == authReq.c.status # 0

\* the Bearer token of the request, when it carried one
Carried == extractBearerToken(authReq.c.header)

\* the request carried a Bearer token that parses as valid
ValidToken == ~Carried.err /\ ~ParseToken(authReq.cfg, Carried.token).err

\* the roles of the valid token
TokenRoles ==
    LET roles == ParseToken(authReq.cfg, Carried.token).claims[1].roles
    IN  {roles[i] : i \in 1..Len(roles)}

\* the roles the route requires
Required == {authReq.required[j] : j \in 1..Len(authReq.required)}

\* the answer is status, the chain was aborted and the handler did not run
RefusedWith(status) ==
    /\ authReq.c.status = status
    /\ authReq.c.aborted
    /\ ~authReq.c.handler

\* C25 as stated: the handler runs only for a request with a valid Bearer
\* token one of whose roles is required; a missing or invalid token is
\* answered 401 and a valid token without a required role 403, both with the
\* chain aborted before the handler.
C25_OnlyAuthorizedReachHandler ==
    ServedProtected =>
       /\ authReq.c.handler => ValidToken /\ TokenRoles \cap Required # {}
       /\ ~ValidToken => RefusedWith(StatusUnauthorized)
       /\ ValidToken /\ TokenRoles \cap Required = {} => RefusedWith(StatusForbidden)

\* C25, amended: behind RequireRoles with at least one role the handler runs
\* exactly for the requests with a valid Bearer token one of whose roles is
\* required; a missing or invalid token is answered 401, and so is a valid
\* token that has no roles at all; a valid token with roles none of which is
\* required is answered 403; in these cases the chain is aborted before the
\* handler.  Behind RequireRoles() without roles the handler runs for every
\* valid token.
C25_AuthorizedOrRefused ==
    ServedProtected =>
       /\ authReq.c.handler
          <=> ValidToken /\ (Required = {} \/ TokenRoles \cap Required # {})
       /\ authReq.c.handler => authReq.c.status = StatusOK /\ ~authReq.c.aborted
       /\ ~ValidToken => RefusedWith(StatusUnauthorized)
       /\ ValidToken /\ Required # {} /\ TokenRoles = {}
          => RefusedWith(StatusUnauthorized)
       /\ ValidToken /\ TokenRoles # {} /\ Required # {} /\ TokenRoles \cap Required = {}
          => RefusedWith(StatusForbidden)

\* a valid token with the role user asked for a route that requires admin
\* and was answered 403
C25_Witness ==
    /\ ValidToken
    /\ TokenRoles = {"user"}
    /\ Required = {"admin"}
    /\ RefusedWith(StatusForbidden)

----------------------------------------------------------------------------
(* Properties of a Get that runs beside writes *)

\* C26 as stated: once a Get that missed the cache and the writes that ran
\* beside it have all completed, the entry under the entity key is absent or
\* reads back as the row the table holds now.
C26_NoStaleEntryAfterRace ==
    reading.pc = "idle" =>
       \A id \in EntityIds :
          Live(EntityKey(svc, id)) => FindByID(id) # <<>> /\ EntryIsRow(id)


----------------------------------------------------------------------------
(* Properties of the breaker's rejections *)

\* the status response.Error answers with for an error of Execute: an error
\* that is no AppError becomes INTERNAL_ERROR
AnsweredStatus(err) ==
    getStatusCode(IF err \in AppErrorCodes THEN err ELSE ErrCodeInternal)

\* C27: every Execute call the breaker rejects without invoking the operation
\* returns the typed CIRCUIT_OPEN error, answered with 503, also when it is
\* rejected in the half-open state because the trial quota is in use
C27_RejectionsAreCircuitOpen ==
    [][\A c \in Callers :
         (ExecuteCall(c) /\ pc'[c] = "idle")
            => /\ ret' = ErrCodeCircuitOpen
               /\ AnsweredStatus(ret') = StatusServiceUnavailable]_vars


----------------------------------------------------------------------------
(* Properties of GetOrder after a degraded answer *)

\* GetOrder of id while the user service is healthy and the breaker closed:
\* GetUser would return the user
GetOrderHealthy(id) == GetEntity(id, <<ActiveUser>>, TRUE)

\* the single-entity operations, where every order keeps being asked for
\* while the user service is healthy
SpecCacheHealed ==
    /\ InitCache
    /\ [][NextCache]_vars
    /\ \A id \in EntityIds : WF_vars(GetOrderHealthy(id))

\* the cache holds order id without user data, as an entry that does not expire
UserlessEntry(id) ==
    /\ svc = "orders"
    /\ EntityKey(svc, id) \in DOMAIN store
    /\ store[EntityKey(svc, id)].expires = NoExpiry
    /\ "user" \notin DOMAIN store[EntityKey(svc, id)].value

\* the last operation was a GetOrder of id that returned the order with its user
ReturnedWithUser(id) ==
    /\ svc = "orders"
    /\ last.op = "get" /\ last.id = id /\ last.err = ErrNil
    /\ last.value # <<>>
    /\ last.value[1].User # <<>>

\* C28: an order answer cached without user data is not permanent: while
\* GetOrder keeps being asked with the user service healthy, a GetOrder
\* eventually returns the order with its user, or a write has removed the entry
C28_UserlessAnswerIsNotPermanent ==
    \A id \in EntityIds :
       UserlessEntry(id) ~> (ReturnedWithUser(id) \/ ~UserlessEntry(id))


----------------------------------------------------------------------------
(* Properties of the list keys and the repositories' list queries *)

\* ListOrdersQuery.Offset, and the same method of the other two queries
Offset(query) == (query.Page - 1) * query.PageSize

\* a Where clause on a string column: absent when the value is ""
WhereText(value) == IF value # <<>> THEN <<value>> ELSE <<>>

\* the Where clause on the status column: the status asked for, or every
\* status but deleted
WhereStatus(status) ==
    IF status # <<>> THEN <<"=", status[1]>> ELSE <<"<>", StatusDeleted>>

\* orderRepository.List: the statement it issues, by its clauses
orderRepositoryList(query) ==
    [user_id |-> query.UserID,
     order_status |-> query.OrderStatus,
     product_id |-> WhereText(query.ProductID),
     status |-> WhereStatus(query.Status),
     offset |-> Offset(query), limit |-> query.PageSize]

\* repositoryRepository.List
repositoryRepositoryList(query) ==
    [search |-> WhereText(query.Search),
     owner_id |-> query.OwnerID,
     visibility |-> WhereText(query.Visibility),
     status |-> WhereStatus(query.Status),
     offset |-> Offset(query), limit |-> query.PageSize]

\* auditLogRepository.List
auditLogRepositoryList(query) ==
    [search |-> WhereText(query.Search),
     actor |-> WhereText(query.Actor),
     action |-> WhereText(query.Action),
     resource_type |-> WhereText(query.ResourceType),
     resource_id |-> WhereText(query.ResourceID),
     status |-> WhereStatus(query.Status),
     offset |-> Offset(query), limit |-> query.PageSize]

\* the statement service s issues for a list query on a cache miss
SourceQuery(s, query) ==
    CASE s = "orders" -> orderRepositoryList(ApplyDefaults(query))
      [] s = "repositories" -> repositoryRepositoryList(ApplyDefaults(query))
      [] OTHER -> auditLogRepositoryList(ApplyDefaults(query))

\* C29: two list queries with the same list cache key issue the same query
\* to the repository, padded free-text values included
C29_SameKeySameSourceQuery ==
    (listKeys # <<>> /\ listKeys[1] = listKeys[2])
       => SourceQuery(svc, queries[1]) = SourceQuery(svc, queries[2])


----------------------------------------------------------------------------
(* Properties of the cleanup beside requests *)

\* C30: CleanupStaleEntries does not change what is admitted: however it is
\* interleaved with the requests of a key, the key is admitted at most burst
\* times with no time elapsed
C30_CleanupKeepsAdmissions ==
    \A key \in Keys : \A t \in 0..tick : Cardinality(AdmittedAt(key, t)) <= rl.burst

====
